---------------------------- MODULE Spec2Model ----------------------------
(***************************************************************************)
(* A model of the osdd-core recipe materialization engine:                 *)
(*   - the persistence writer        (core/io.go)                          *)
(*   - the context materializer      (core/generators/context.go)          *)
(*   - the recipe provider           (core/providers/recipe.go)            *)
(*   - the shared tool adapter       (core/plugins/shared/ide.go)          *)
(*   - the claude settings strategy  (core/plugins/claude)                 *)
(* Paths are sequences of segments with an "absolute" flag; the file       *)
(* system is a function from absolute normalized paths to nodes.  Symbolic *)
(* links and surrounding white space in paths are not modelled.            *)
(***************************************************************************)
EXTENDS Integers, Sequences, FiniteSets, TLC

VARIABLES
    fs,        \* the file system: absolute path -> node
    persist,   \* the run of PersistMaterializedResult
    ctxRun,    \* a call of Context.Materialize
    ideRun,    \* a call of IDE.Materialize
    recipeRun, \* a call of Recipe.Materialize, stage by stage
    resolveRun, \* a call of Context.fetchContent
    pfRun,     \* a call of Processor.Process
    wsRun,     \* two calls of Workspace.Materialize
    fetchRun,  \* a call of GitHub.FetchRecipe
    execRun    \* an executable Recipe and the calls made on it

vars ==
    <<fs, persist, ctxRun, ideRun, recipeRun, resolveRun, pfRun, wsRun,
      fetchRun, execRun>>

(***************************************************************************)
(* Bounds of the model.                                                    *)
(***************************************************************************)
MaxEntries == 2      \* longest MaterializedResult handed to the writer
MaxCtxEntries == 3   \* longest list of context entries
MaxItems == 3        \* longest list of sub-items of a Combined source
MaxParams == 3       \* longest list of parameters of a UserInput source
MaxPrefetch == 3     \* longest list of prefetch entries
MaxSlugLen == 3      \* largest slug length a workspace configuration asks for
MaxCalls == 3        \* most calls made on one executable Recipe

(***************************************************************************)
(* Generic helpers.                                                        *)
(***************************************************************************)
SeqsUpTo(S, n) == UNION {[1..k -> S] : k \in 0..n}

IsPrefixOf(s, t) == Len(s) <= Len(t) /\ SubSeq(t, 1, Len(s)) = s

Front(s) == SubSeq(s, 1, Len(s) - 1)

Last(s) == s[Len(s)]

(***************************************************************************)
(* path/filepath.  A path is [abs |-> BOOLEAN, segs |-> sequence of        *)
(* segments]; the empty string is the relative path without segments.      *)
(***************************************************************************)
Path(abs, segs) == [abs |-> abs, segs |-> segs]

RECURSIVE CleanSegs(_, _, _)
\* filepath.Clean on the segments: "." is dropped, ".." removes the segment
\* before it, is dropped at the root of a rooted path, and is kept in front
\* of a relative path.
CleanSegs(abs, segs, out) ==
    IF segs = <<>> THEN out
    ELSE LET s == Head(segs) IN
         IF s = "." THEN CleanSegs(abs, Tail(segs), out)
         ELSE IF s = ".."
              THEN IF out # <<>> /\ Last(out) # ".."
                   THEN CleanSegs(abs, Tail(segs), Front(out))
                   ELSE IF abs THEN CleanSegs(abs, Tail(segs), out)
                        ELSE CleanSegs(abs, Tail(segs), Append(out, ".."))
              ELSE CleanSegs(abs, Tail(segs), Append(out, s))

\* filepath.Clean: the result without segments is "." (relative) or "/".
Clean(p) == Path(p.abs, CleanSegs(p.abs, p.segs, <<>>))

\* filepath.Join(a, b) for a non-empty a: concatenation, then Clean.
Join(a, b) == Clean(Path(a.abs, a.segs \o b.segs))

\* filepath.Dir of a cleaned path: the path without its last element.
Dir(p) == IF p.segs = <<>> THEN p ELSE Path(p.abs, Front(p.segs))

RECURSIVE CommonLen(_, _)
CommonLen(s, t) ==
    IF s = <<>> \/ t = <<>> \/ Head(s) # Head(t) THEN 0
    ELSE 1 + CommonLen(Tail(s), Tail(t))

Ups(n) == [i \in 1..n |-> ".."]

\* filepath.Rel(base, targ) of two cleaned paths.
Rel(base, targ) ==
    LET k == CommonLen(base.segs, targ.segs) IN
    IF base = targ THEN [ok |-> TRUE, segs |-> <<>>]
    ELSE IF base.abs # targ.abs THEN [ok |-> FALSE, segs |-> <<>>]
    ELSE IF k < Len(base.segs) /\ base.segs[k + 1] = ".."
         THEN [ok |-> FALSE, segs |-> <<>>]
    ELSE [ok |-> TRUE,
          segs |-> Ups(Len(base.segs) - k)
                   \o SubSeq(targ.segs, k + 1, Len(targ.segs))]

\* isPathWithinRoot without the test of lines 120-122 (rel == "..")
isPathWithinRootNoParentCase(root, target) ==
    LET rel == Rel(Clean(root), Clean(target)) IN
    IF ~rel.ok THEN FALSE
    ELSE IF rel.segs = <<>> THEN TRUE
    ELSE IF Len(rel.segs) >= 2 /\ Head(rel.segs) = ".." THEN FALSE
    ELSE TRUE

\* isPathWithinRoot: target is root or lies below it.
isPathWithinRoot(root, target) ==
    LET rel == Rel(Clean(root), Clean(target)) IN
    IF ~rel.ok THEN FALSE
    ELSE IF rel.segs = <<>> THEN TRUE
    ELSE IF Head(rel.segs) = ".." THEN FALSE
    ELSE TRUE

\* a *MaterializedResult: nil, or a list of entries
NilResult == [isNil |-> TRUE, entries |-> <<>>]
Result(es) == [isNil |-> FALSE, entries |-> es]

(***************************************************************************)
(* Errors are the chain of messages fmt.Errorf builds, outermost first,    *)
(* with the values they print; <<>> is the nil error.                      *)
(***************************************************************************)
NoErr == <<>>

Wrap(prefix, err) == prefix \o err

\* (value, error) with the external operations invoked so far
Ret(val, err, calls) == [val |-> val, err |-> err, calls |-> calls]

Call(kind, arg) == [kind |-> kind, arg |-> arg]

(***************************************************************************)
(* External collaborators: command execution, GitHub fetch, file read and  *)
(* git clone either fail or deliver; env.fail names the operations that    *)
(* fail in this run.                                                       *)
(***************************************************************************)
Output(op) == "out:" \o op

\* a command run a second time when it failed
ExecuteCommandRetrying(op, env, calls) ==
    IF op \in env.fail
    THEN Ret("", <<"command execution failed", op>>,
             calls \o <<Call("cmd", op), Call("cmd", op)>>)
    ELSE Ret(Output(op), NoErr, Append(calls, Call("cmd", op)))

\* utils.ExecuteCommand
ExecuteCommand(op, env, calls) ==
    IF op \in env.fail
    THEN Ret("", <<"command execution failed", op>>,
             Append(calls, Call("cmd", op)))
    ELSE Ret(Output(op), NoErr, Append(calls, Call("cmd", op)))

\* utils.FetchGithub
FetchGithub(op, env, calls) ==
    IF op \in env.fail
    THEN Ret("", <<"failed to fetch", op>>, Append(calls, Call("github", op)))
    ELSE Ret(Output(op), NoErr, Append(calls, Call("github", op)))

\* os.ReadFile of a LocalFile source
ReadLocalFile(op, env, calls) ==
    IF op = "" THEN Ret("", <<"local file path cannot be empty">>, calls)
    ELSE IF op \in env.fail
    THEN Ret("", <<"failed to read local file", op>>,
             Append(calls, Call("read", op)))
    ELSE Ret(Output(op), NoErr, Append(calls, Call("read", op)))

\* utils.CloneGitRepo into dest
CloneGitRepo(op, dest, env, calls) ==
    IF op \in env.fail
    THEN Ret("", <<"git clone failed", op>>,
             Append(calls, Call("clone", dest)))
    ELSE Ret("", NoErr, Append(calls, Call("clone", dest)))

(***************************************************************************)
(* core.GenerationContext.                                                 *)
(***************************************************************************)
NilGenCtx ==
    [isNil |-> TRUE, Prefetched |-> <<>>, UserInput |-> <<>>, IDE |-> "",
     WorkspacePath |-> ""]

GenCtx(pre, ui, ide, ws) ==
    [isNil |-> FALSE, Prefetched |-> pre, UserInput |-> ui, IDE |-> ide,
     WorkspacePath |-> ws]

\* a Go map as a function; a nil map has the empty domain
EmptyMap == <<>>

HasKey(m, k) == k \in DOMAIN m

\* GenerationContext.GetPrefetched
GetPrefetched(g) == IF g.isNil THEN EmptyMap ELSE g.Prefetched

\* GenerationContext.GetUserInput
GetUserInput(g) == IF g.isNil THEN EmptyMap ELSE g.UserInput

(***************************************************************************)
(* Source expressions (recipes.ContextFrom, CombinedContextSource_Item).   *)
(***************************************************************************)
Src(kind, arg, items) == [kind |-> kind, arg |-> arg, items |-> items]

Text(t) == Src("text", t, <<>>)
Cmd(op) == Src("cmd", op, <<>>)
Github(op) == Src("github", op, <<>>)
PrefetchId(k) == Src("prefetchId", k, <<>>)
LocalFile(op) == Src("localFile", op, <<>>)
GitRepo(op) == Src("gitRepo", op, <<>>)
Combined(items) == Src("combined", "", items)
UserInput(params) == Src("userInput", "", params)
Typeless == Src("typeless", "", <<>>)     \* a 'from' with no case set
NoFrom == Src("none", "", <<>>)           \* no 'from' at all

Param(name, desc, optional) ==
    [name |-> name, desc |-> desc, optional |-> optional]

RECURSIVE JoinComma(_)
\* strings.Join(names, ", ")
JoinComma(names) ==
    IF names = <<>> THEN ""
    ELSE IF Len(names) = 1 THEN names[1]
    ELSE names[1] \o ", " \o JoinComma(Tail(names))

RECURSIVE RenderParams(_, _)
\* the body of userInputTemplate over the view models vm
RenderParams(vm, vals) ==
    IF vm = <<>> THEN ""
    ELSE "## " \o vm[1].name \o "\n\n**Description**: " \o vm[1].desc
         \o "\n\n**Value**: "
         \o (IF HasKey(vals, vm[1].name) THEN vals[vm[1].name] ELSE "")
         \o "\n\n"
         \o (IF Len(vm) > 1 THEN "---\n\n" ELSE "")
         \o RenderParams(Tail(vm), vals)

\* renderUserInput returning at the first missing parameter
renderUserInputFirstMissing(params, g, calls) ==
    LET vals    == GetUserInput(g)
        named   == SelectSeq(params, LAMBDA q : q.name # "")
        missing == SelectSeq(named,
                             LAMBDA q : ~HasKey(vals, q.name) /\ ~q.optional)
    IN
    IF Len(params) = 0 THEN Ret("", NoErr, calls)
    ELSE IF Len(missing) > 0
    THEN Ret("", <<"missing required user input parameters", missing[1].name>>,
             calls)
    ELSE Ret("# User Input\n\n" \o RenderParams(named, vals), NoErr, calls)

\* renderUserInput
renderUserInput(params, g, calls) ==
    LET vals    == GetUserInput(g)
        named   == SelectSeq(params, LAMBDA q : q.name # "")
        missing == SelectSeq(named,
                             LAMBDA q : ~HasKey(vals, q.name) /\ ~q.optional)
    IN
    IF Len(params) = 0 THEN Ret("", NoErr, calls)
    ELSE IF Len(missing) > 0
    THEN Ret("", <<"missing required user input parameters",
                   JoinComma([i \in 1..Len(missing) |-> missing[i].name])>>,
             calls)
    ELSE Ret("# User Input\n\n" \o RenderParams(named, vals), NoErr, calls)

\* fetchCombinedItem reading the cache without the ok test
fetchCombinedItemNoOk(item, g, env, calls) ==
    CASE item.kind = "text" -> Ret(item.arg, NoErr, calls)
      [] item.kind = "cmd" -> ExecuteCommand(item.arg, env, calls)
      [] item.kind = "github" -> FetchGithub(item.arg, env, calls)
      [] item.kind = "prefetchId" ->
            IF HasKey(GetPrefetched(g), item.arg)
            THEN Ret(GetPrefetched(g)[item.arg], NoErr, calls)
            ELSE Ret("", NoErr, calls)
      [] item.kind = "userInput" -> renderUserInput(item.items, g, calls)
      [] item.kind = "localFile" -> ReadLocalFile(item.arg, env, calls)
      [] OTHER -> Ret("", <<"unknown or unset combined item type">>, calls)

\* Context.fetchCombinedItem
fetchCombinedItem(item, g, env, calls) ==
    CASE item.kind = "text" -> Ret(item.arg, NoErr, calls)
      [] item.kind = "cmd" -> ExecuteCommand(item.arg, env, calls)
      [] item.kind = "github" -> FetchGithub(item.arg, env, calls)
      [] item.kind = "prefetchId" ->
            IF HasKey(GetPrefetched(g), item.arg)
            THEN Ret(GetPrefetched(g)[item.arg], NoErr, calls)
            ELSE Ret("", <<"prefetch id not found", item.arg>>, calls)
      [] item.kind = "userInput" -> renderUserInput(item.items, g, calls)
      [] item.kind = "localFile" -> ReadLocalFile(item.arg, env, calls)
      [] OTHER -> Ret("", <<"unknown or unset combined item type">>, calls)

RECURSIVE fetchCombinedFromNewline(_, _, _, _, _, _)
\* the loop writing a line break after each item
fetchCombinedFromNewline(items, i, acc, g, env, calls) ==
    IF i > Len(items) THEN Ret(acc, NoErr, calls)
    ELSE LET r == fetchCombinedItem(items[i], g, env, calls) IN
         IF r.err # NoErr
         THEN Ret("", Wrap(<<"failed to fetch combined item", ToString(i - 1)>>,
                           r.err), r.calls)
         ELSE fetchCombinedFromNewline(items, i + 1, acc \o r.val \o "\n", g,
                                       env, r.calls)

RECURSIVE fetchCombinedFrom(_, _, _, _, _, _)
\* the loop of Context.fetchCombined from item i on, acc being the builder
fetchCombinedFrom(items, i, acc, g, env, calls) ==
    IF i > Len(items) THEN Ret(acc, NoErr, calls)
    ELSE LET r == fetchCombinedItem(items[i], g, env, calls) IN
         IF r.err # NoErr
         THEN Ret("", Wrap(<<"failed to fetch combined item", ToString(i - 1)>>,
                           r.err), r.calls)
         ELSE fetchCombinedFrom(items, i + 1, acc \o r.val, g, env, r.calls)

\* Context.fetchCombined
fetchCombined(items, g, env, calls) ==
    IF Len(items) = 0 THEN Ret("", NoErr, calls)
    ELSE fetchCombinedFrom(items, 1, "", g, env, calls)

\* Context.fetchContent
fetchContent(from, g, env, calls) ==
    CASE from.kind = "text" -> Ret(from.arg, NoErr, calls)
      [] from.kind = "cmd" -> ExecuteCommand(from.arg, env, calls)
      [] from.kind = "github" -> FetchGithub(from.arg, env, calls)
      [] from.kind = "combined" -> fetchCombined(from.items, g, env, calls)
      [] from.kind = "prefetchId" ->
            IF HasKey(GetPrefetched(g), from.arg)
            THEN Ret(GetPrefetched(g)[from.arg], NoErr, calls)
            ELSE Ret("", <<"prefetch id not found", from.arg>>, calls)
      [] from.kind = "userInput" -> renderUserInput(from.items, g, calls)
      [] from.kind = "localFile" -> ReadLocalFile(from.arg, env, calls)
      [] OTHER -> Ret("", <<"unknown or unset context source type">>, calls)

(***************************************************************************)
(* Context.Materialize (core/generators/context.go).  Entry paths are      *)
(* strings here; a record of the result is a File or a Directory.          *)
(***************************************************************************)
CtxEntry(path, from, filter) == [path |-> path, from |-> from, filter |-> filter]

FileRec(path, content) == [kind |-> "file", path |-> path, content |-> content]
DirRec(path) == [kind |-> "dir", path |-> path, content |-> ""]

\* filepath.Join(WorkspacePath, path) on strings
JoinStr(a, b) == a \o "/" \o b

\* Context.materializeGitRepo
\* materializeGitRepo recording the directory it cloned into
materializeGitRepoDestPath(entry, g, env, calls) ==
    LET destPath == IF ~g.isNil /\ g.WorkspacePath # ""
                    THEN JoinStr(g.WorkspacePath, entry.path)
                    ELSE entry.path
        r == CloneGitRepo(entry.from.arg, destPath, env, calls)
    IN
    IF r.err # NoErr
    THEN Ret(DirRec(""), Wrap(<<"failed to clone git repository">>, r.err),
             r.calls)
    ELSE Ret(DirRec(destPath), NoErr, r.calls)

\* Context.materializeGitRepo
materializeGitRepo(entry, g, env, calls) ==
    LET destPath == IF ~g.isNil /\ g.WorkspacePath # ""
                    THEN JoinStr(g.WorkspacePath, entry.path)
                    ELSE entry.path
        r == CloneGitRepo(entry.from.arg, destPath, env, calls)
    IN
    IF r.err # NoErr
    THEN Ret(DirRec(""), Wrap(<<"failed to clone git repository">>, r.err),
             r.calls)
    ELSE Ret(DirRec(entry.path), NoErr, r.calls)

\* Context.materializeEntry
materializeEntry(entry, g, env, calls) ==
    IF entry.path = ""
    THEN Ret(DirRec(""), <<"entry path cannot be empty">>, calls)
    ELSE IF entry.from.kind = "none"
    THEN Ret(DirRec(""), <<"entry must have a 'from' source">>, calls)
    ELSE IF entry.from.kind = "gitRepo"
    THEN materializeGitRepo(entry, g, env, calls)
    ELSE LET r == fetchContent(entry.from, g, env, calls) IN
         IF r.err # NoErr
         THEN Ret(DirRec(""), Wrap(<<"failed to fetch content">>, r.err),
                  r.calls)
         ELSE Ret(FileRec(entry.path, r.val), NoErr, r.calls)

InSeq(x, s) == \E i \in 1..Len(s) : s[i] = x

\* the outcome of a Materialize call: a result and an error, or a panic
Out(result, err, calls, panic) ==
    [result |-> result, err |-> err, calls |-> calls, panic |-> panic]

\* the filter test of Context.Materialize; reading genCtx.IDE of a nil
\* GenerationContext is a nil pointer dereference
FilterReadsNil(entry, g) == Len(entry.filter) > 0 /\ g.isNil

\* the filter test applied also when the GenerationContext names no tool
SkippedUnsetToolToo(entry, g) ==
    Len(entry.filter) > 0 /\ ~InSeq(g.IDE, entry.filter)

\* lines 627-630: the filter test of the loop
Skipped(entry, g) ==
    Len(entry.filter) > 0 /\ g.IDE # "" /\ ~InSeq(g.IDE, entry.filter)

RECURSIVE MaterializeFromPartial(_, _, _, _, _, _)
\* the loop returning the records gathered so far along with the error
MaterializeFromPartial(entries, i, acc, g, env, calls) ==
    IF i > Len(entries) THEN Out(Result(acc), NoErr, calls, FALSE)
    ELSE IF FilterReadsNil(entries[i], g)
    THEN Out(NilResult, NoErr, calls, TRUE)
    ELSE IF Skipped(entries[i], g)
    THEN MaterializeFromPartial(entries, i + 1, acc, g, env, calls)
    ELSE LET r == materializeEntry(entries[i], g, env, calls) IN
         IF r.err # NoErr
         THEN Out(Result(acc),
                  Wrap(<<"failed to materialize entry for path",
                         entries[i].path>>, r.err),
                  r.calls, FALSE)
         ELSE MaterializeFromPartial(entries, i + 1, Append(acc, r.val), g,
                                     env, r.calls)

RECURSIVE MaterializeFrom(_, _, _, _, _, _)
\* the loop of Context.Materialize from entry i on
MaterializeFrom(entries, i, acc, g, env, calls) ==
    IF i > Len(entries) THEN Out(Result(acc), NoErr, calls, FALSE)
    ELSE IF FilterReadsNil(entries[i], g)
    THEN Out(NilResult, NoErr, calls, TRUE)
    ELSE IF Skipped(entries[i], g)
    THEN MaterializeFrom(entries, i + 1, acc, g, env, calls)
    ELSE LET r == materializeEntry(entries[i], g, env, calls) IN
         IF r.err # NoErr
         THEN Out(NilResult,
                  Wrap(<<"failed to materialize entry for path",
                         entries[i].path>>, r.err),
                  r.calls, FALSE)
         ELSE MaterializeFrom(entries, i + 1, Append(acc, r.val), g, env,
                              r.calls)

\* a *recipes.Context: nil, or a message with a list of entries
NilContext == [isNil |-> TRUE, entries |-> <<>>]
Context(es) == [isNil |-> FALSE, entries |-> es]

\* Context.Materialize
ContextMaterialize(contextMsg, g, env, calls) ==
    IF contextMsg.isNil
    THEN Out(NilResult, <<"context cannot be nil">>, calls, FALSE)
    ELSE MaterializeFrom(contextMsg.entries, 1, <<>>, g, env, calls)

(***************************************************************************)
(* JSON documents.  A file content is "empty" (no file, or an empty one),  *)
(* "invalid" (not parsable) or an object.  Objects are functions from keys *)
(* to values; encoding/json is modelled by what it keeps and what it       *)
(* drops, not by the bytes.                                                *)
(***************************************************************************)
Keys(o) == DOMAIN o

Without(o, ks) == [k \in Keys(o) \ ks |-> o[k]]

Get(o, k, default) == IF k \in Keys(o) THEN o[k] ELSE default

(***************************************************************************)
(* The MCP servers file (core/plugins/shared/ide.go).                      *)
(*   document: [kind, hasServers, servers: name -> object, extra: key ->   *)
(*             value], "mcpServers" being absent or null when ~hasServers  *)
(***************************************************************************)
McpDoc(kind, hasServers, servers, extra) ==
    [kind |-> kind, hasServers |-> hasServers, servers |-> servers,
     extra |-> extra]

EmptyMcpDoc == McpDoc("empty", FALSE, EmptyMap, EmptyMap)
InvalidMcpDoc == McpDoc("invalid", FALSE, EmptyMap, EmptyMap)

KnownServerKeys == {"type", "command", "args", "env", "url"}

\* type mcpServerConfig; a nil slice or map is [isNil |-> TRUE]
NilList == [isNil |-> TRUE, v |-> <<>>]
List(v) == [isNil |-> FALSE, v |-> v]

ServerConfig(type, command, args, env, url, extra) ==
    [Type |-> type, Command |-> command, Args |-> args, Env |-> env,
     Url |-> url, Extra |-> extra]

\* mcpServerConfig.UnmarshalJSON
mcpServerConfigUnmarshalJSON(o) ==
    ServerConfig(Get(o, "type", ""), Get(o, "command", ""),
                 IF "args" \in Keys(o) THEN List(o["args"]) ELSE NilList,
                 IF "env" \in Keys(o) THEN List(o["env"]) ELSE NilList,
                 Get(o, "url", ""),
                 Without(o, KnownServerKeys))

\* the fields of the struct tags with omitempty
StructFields(c) ==
    {k \in KnownServerKeys :
        \/ k = "type" /\ c.Type # ""
        \/ k = "command" /\ c.Command # ""
        \/ k = "args" /\ ~c.Args.isNil /\ c.Args.v # <<>>
        \/ k = "env" /\ ~c.Env.isNil /\ c.Env.v # <<>>
        \/ k = "url" /\ c.Url # ""}

FieldValue(c, k) ==
    CASE k = "type" -> c.Type
      [] k = "command" -> c.Command
      [] k = "args" -> c.Args.v
      [] k = "env" -> c.Env.v
      [] k = "url" -> c.Url

\* mcpServerConfig.MarshalJSON (pointer receiver): the fields set, and the
\* unknown fields kept in Extra
mcpServerConfigMarshalJSON(c) ==
    LET set == {k \in KnownServerKeys :
                  \/ k = "type" /\ c.Type # ""
                  \/ k = "command" /\ c.Command # ""
                  \/ k = "args" /\ ~c.Args.isNil
                  \/ k = "env" /\ ~c.Env.isNil
                  \/ k = "url" /\ c.Url # ""}
    IN [k \in set \cup Keys(c.Extra) |->
            IF k \in Keys(c.Extra) THEN c.Extra[k] ELSE FieldValue(c, k)]

\* encoding/json on a mcpServerConfig VALUE: the elements of
\* map[string]mcpServerConfig are not addressable, so the pointer-receiver
\* MarshalJSON is not used and the struct is encoded by its tags; Extra is
\* tagged "-".
EncodeServerValue(c) == [k \in StructFields(c) |-> FieldValue(c, k)]

\* type mcpJson: McpServers is nil or a map of configurations
McpJson(isNil, servers, extra) ==
    [serversNil |-> isNil, McpServers |-> servers, Extra |-> extra]

\* mcpJson.UnmarshalJSON
mcpJsonUnmarshalJSON(doc) ==
    McpJson(~doc.hasServers,
            [n \in Keys(doc.servers) |->
                mcpServerConfigUnmarshalJSON(doc.servers[n])],
            doc.extra)

\* mcpJson.MarshalJSON dropping the keys it does not know
mcpJsonMarshalJSONKnownOnly(cm) ==
    McpDoc("object", ~cm.serversNil,
           [n \in Keys(cm.McpServers) |-> EncodeServerValue(cm.McpServers[n])],
           EmptyMap)

\* mcpJson.MarshalJSON: "mcpServers" and the extra top-level keys
mcpJsonMarshalJSON(cm) ==
    McpDoc("object", ~cm.serversNil,
           [n \in Keys(cm.McpServers) |-> EncodeServerValue(cm.McpServers[n])],
           cm.Extra)

\* recipes.McpServer: no type set, Http{url}, Stdio{command, args}; a
\* command string is the sequence of its white-space separated words
McpServer(type, url, words, args) ==
    [type |-> type, url |-> url, words |-> words, args |-> args]

HttpServer(url) == McpServer("http", url, <<>>, <<>>)
StdioServer(words, args) == McpServer("stdio", "", words, args)
TypelessServer == McpServer("none", "", <<>>, <<>>)

RECURSIVE JoinSpace(_)
\* the command string with its words
JoinSpace(words) ==
    IF words = <<>> THEN ""
    ELSE IF Len(words) = 1 THEN words[1]
    ELSE words[1] \o " " \o JoinSpace(Tail(words))

\* lines 289-320 of buildMcpJSON: the configuration of a declared server
NewServerConfig(srv) ==
    IF srv.type = "http"
    THEN ServerConfig("http", "", NilList, NilList, srv.url, EmptyMap)
    ELSE \* stdio
         IF srv.words = <<>>
         THEN ServerConfig("stdio", "", NilList, List(EmptyMap), "", EmptyMap)
         ELSE IF Len(srv.args) > 0
         THEN ServerConfig("stdio", JoinSpace(srv.words), List(srv.args),
                           List(EmptyMap), "", EmptyMap)
         ELSE ServerConfig("stdio", srv.words[1],
                           IF Len(srv.words) > 1 THEN List(Tail(srv.words))
                           ELSE NilList,
                           List(EmptyMap), "", EmptyMap)

\* recipes.Mcp: nil, or the declared servers by name
NilMcp == [isNil |-> TRUE, servers |-> EmptyMap]
Mcp(servers) == [isNil |-> FALSE, servers |-> servers]

Typed(mcp) == {n \in Keys(mcp.servers) : mcp.servers[n].type # "none"}

\* lines 284-328 of buildMcpJSON: update-or-insert of the declared servers
MergeServers(cm, mcp) ==
    IF Typed(mcp) = {} THEN cm
    ELSE McpJson(FALSE,
                 [n \in Keys(cm.McpServers) \cup Typed(mcp) |->
                     IF n \in Typed(mcp) THEN NewServerConfig(mcp.servers[n])
                     ELSE cm.McpServers[n]],
                 cm.Extra)

\* buildMcpJSON starting afresh when the existing content does not parse
buildMcpJSONStartFresh(mcp, existing) ==
    IF mcp.isNil THEN Ret(EmptyMcpDoc, <<"mcp cannot be nil">>, <<>>)
    ELSE Ret(mcpJsonMarshalJSON(
                 MergeServers(IF existing.kind = "object"
                              THEN mcpJsonUnmarshalJSON(existing)
                              ELSE McpJson(TRUE, EmptyMap, EmptyMap), mcp)),
             NoErr, <<>>)

\* buildMcpJSON
buildMcpJSON(mcp, existing) ==
    IF mcp.isNil THEN Ret(EmptyMcpDoc, <<"mcp cannot be nil">>, <<>>)
    ELSE IF existing.kind = "invalid"
    THEN Ret(EmptyMcpDoc, <<"failed to parse existing mcp json">>, <<>>)
    ELSE Ret(mcpJsonMarshalJSON(
                 MergeServers(IF existing.kind = "object"
                              THEN mcpJsonUnmarshalJSON(existing)
                              ELSE McpJson(TRUE, EmptyMap, EmptyMap), mcp)),
             NoErr, <<>>)

\* IDE.materializeMcp: the entries, or an error
materializeMcp(mcp, mcpPath, existing) ==
    IF mcp.isNil \/ mcpPath = "" THEN Ret(<<>>, NoErr, <<>>)
    ELSE LET r == buildMcpJSON(mcp, existing) IN
         IF r.err # NoErr THEN Ret(<<>>, r.err, <<>>)
         ELSE Ret(<<FileRec(mcpPath, r.val)>>, NoErr, <<>>)

(***************************************************************************)
(* The settings file of the reference tool (plugins/claude).               *)
(*   document: [kind, perms: key -> value, top: key -> value]; perms holds *)
(*   the keys under "permissions", top the other top-level keys.           *)
(***************************************************************************)
SettingsDoc(kind, perms, top) == [kind |-> kind, perms |-> perms, top |-> top]

EmptySettingsDoc == SettingsDoc("empty", EmptyMap, EmptyMap)
InvalidSettingsDoc == SettingsDoc("invalid", EmptyMap, EmptyMap)

\* type claudeSettings
ClaudeSettings(allow, deny, ask, mode, enabled, enableAll) ==
    [Allow |-> allow, Deny |-> deny, Ask |-> ask, DefaultMode |-> mode,
     EnabledMcpjsonServers |-> enabled,
     EnableAllProjectMcpServers |-> enableAll]

ZeroClaudeSettings == ClaudeSettings(<<>>, <<>>, <<>>, "", <<>>, FALSE)

\* json.Unmarshal into claudeSettings: only the tagged fields are read
UnmarshalClaudeSettings(doc) ==
    ClaudeSettings(Get(doc.perms, "allow", <<>>), Get(doc.perms, "deny", <<>>),
                   Get(doc.perms, "ask", <<>>),
                   Get(doc.perms, "defaultMode", ""),
                   Get(doc.top, "enabledMcpjsonServers", <<>>),
                   Get(doc.top, "enableAllProjectMcpServers", FALSE))

\* json.MarshalIndent of claudeSettings: the tagged fields, omitempty
MarshalClaudeSettings(c) ==
    LET pk == {k \in {"allow", "deny", "ask", "defaultMode"} :
                 \/ k = "allow" /\ c.Allow # <<>>
                 \/ k = "deny" /\ c.Deny # <<>>
                 \/ k = "ask" /\ c.Ask # <<>>
                 \/ k = "defaultMode" /\ c.DefaultMode # ""}
        tk == {k \in {"enabledMcpjsonServers", "enableAllProjectMcpServers"} :
                 \/ k = "enabledMcpjsonServers"
                      /\ c.EnabledMcpjsonServers # <<>>
                 \/ k = "enableAllProjectMcpServers"
                      /\ c.EnableAllProjectMcpServers}
    IN SettingsDoc("object",
           [k \in pk |-> CASE k = "allow" -> c.Allow
                           [] k = "deny" -> c.Deny
                           [] k = "ask" -> c.Ask
                           [] k = "defaultMode" -> c.DefaultMode],
           [k \in tk |-> CASE k = "enabledMcpjsonServers" ->
                                  c.EnabledMcpjsonServers
                           [] k = "enableAllProjectMcpServers" ->
                                  c.EnableAllProjectMcpServers])

\* the loop appending every item
AddUnseenAppendAll(result, items) == result \o items

RECURSIVE AddUnseen(_, _)
\* one loop of mergeUniqueStrings: append the items not seen yet
AddUnseen(result, items) ==
    IF items = <<>> THEN result
    ELSE AddUnseen(IF InSeq(Head(items), result) THEN result
                   ELSE Append(result, Head(items)),
                   Tail(items))

\* mergeUniqueStrings appending without the seen map
mergeUniqueStringsNoSeen(existing, new) == existing \o new

\* mergeUniqueStrings
mergeUniqueStrings(existing, new) == AddUnseen(AddUnseen(<<>>, existing), new)

\* recipes.OperationPermission: type "none" has no case set
Perm(type, pattern) == [type |-> type, pattern |-> pattern]

\* formatPermission
formatPermission(p) ==
    CASE p.type = "bash" -> "Bash(" \o p.pattern \o ")"
      [] p.type = "read" -> "Read(" \o p.pattern \o ")"
      [] p.type = "write" -> "Write(" \o p.pattern \o ")"
      [] OTHER -> ""

\* recipes.Permissions
NilPermissions == [isNil |-> TRUE, allow |-> <<>>, deny |-> <<>>]
Permissions(allow, deny) == [isNil |-> FALSE, allow |-> allow, deny |-> deny]

RECURSIVE FormatTyped(_)
\* lines 153-171: the typed permissions, formatted
FormatTyped(ps) ==
    IF ps = <<>> THEN <<>>
    ELSE IF Head(ps).type = "none" THEN FormatTyped(Tail(ps))
    ELSE <<formatPermission(Head(ps))>> \o FormatTyped(Tail(ps))

RECURSIVE McpAllow(_)
McpAllow(names) ==
    IF names = <<>> THEN <<>>
    ELSE <<"mcp__" \o Head(names)>> \o McpAllow(Tail(names))

RECURSIVE CmdAllow(_)
CmdAllow(names) ==
    IF names = <<>> THEN <<>>
    ELSE IF Head(names) = "" THEN CmdAllow(Tail(names))
    ELSE <<"SlashCommand(/" \o Head(names) \o ")">> \o CmdAllow(Tail(names))

\* lines 136-194 of buildClaudeSettingsJSON, from the parsed settings on
MergeSettings(s, perms, mcpServerNames, commandNames) ==
    LET newAllow == FormatTyped(perms.allow) \o McpAllow(mcpServerNames)
                    \o CmdAllow(commandNames)
        newDeny == FormatTyped(perms.deny)
    IN ClaudeSettings(mergeUniqueStrings(s.Allow, newAllow),
                      mergeUniqueStrings(s.Deny, newDeny),
                      s.Ask, "acceptEdits",
                      mergeUniqueStrings(s.EnabledMcpjsonServers,
                                         mcpServerNames),
                      TRUE)

\* buildClaudeSettingsJSON failing on content that does not parse
buildClaudeSettingsJSONStrict(perms, mcpServerNames, commandNames, existing) ==
    IF existing.kind = "invalid"
    THEN Ret(EmptySettingsDoc, <<"failed to parse existing settings json">>,
             <<>>)
    ELSE Ret(MarshalClaudeSettings(
                 MergeSettings(IF existing.kind = "object"
                               THEN UnmarshalClaudeSettings(existing)
                               ELSE ZeroClaudeSettings,
                               perms, mcpServerNames, commandNames)),
             NoErr, <<>>)

\* buildClaudeSettingsJSON
buildClaudeSettingsJSON(perms, mcpServerNames, commandNames, existing) ==
    Ret(MarshalClaudeSettings(
            MergeSettings(IF existing.kind = "object"
                          THEN UnmarshalClaudeSettings(existing)
                          ELSE ZeroClaudeSettings,
                          perms, mcpServerNames, commandNames)),
        NoErr, <<>>)

SettingsPath == ".claude/settings.local.json"

\* materializePermissions
materializePermissions(perms, mcpServerNames, commandNames, existing) ==
    LET r == buildClaudeSettingsJSON(perms, mcpServerNames, commandNames,
                                     existing) IN
    IF r.err # NoErr THEN Ret(<<>>, r.err, <<>>)
    ELSE Ret(<<FileRec(SettingsPath, r.val)>>, NoErr, <<>>)

\* shared.SettingsInput
SettingsInput(perms, mcpServerNames, commandNames) ==
    [Permissions |-> perms, MCPServerNames |-> mcpServerNames,
     CommandNames |-> commandNames]

\* IDESettings.Update: the strategy of the reference tool, or noOpSettings
Update(settings, input, existing) ==
    IF settings = "claude"
    THEN materializePermissions(input.Permissions, input.MCPServerNames,
                                input.CommandNames, existing)
    ELSE Ret(<<>>, NoErr, <<>>)

(***************************************************************************)
(* The shared IDE adapter (core/plugins/shared/ide.go).                    *)
(***************************************************************************)
\* type IDE
IDE(commandsFolder, mcpPath, settings) ==
    [CommandsFolder |-> commandsFolder, MCPServersJSONPath |-> mcpPath,
     Settings |-> settings]

\* claude.NewIDEProvider
ClaudeIDE == IDE(".claude/commands", ".mcp.json", "claude")

\* a shared adapter with no settings strategy and no MCP file
PlainIDE == IDE(".tool/commands", "", "nil")

\* recipes.Command and recipes.Ide
Command(name, from) == [name |-> name, from |-> from]

NilIde == [isNil |-> TRUE, hasCommands |-> FALSE, commands |-> <<>>,
           permissions |-> NilPermissions, mcp |-> NilMcp]

Ide(hasCommands, commands, permissions, mcp) ==
    [isNil |-> FALSE, hasCommands |-> hasCommands, commands |-> commands,
     permissions |-> permissions, mcp |-> mcp]

\* IDE.fetchCommandContent
fetchCommandContent(from, env, calls) ==
    CASE from.kind = "typeless" ->
            Ret("", <<"command 'from' source cannot be nil">>, calls)
      [] from.kind = "text" -> Ret(from.arg, NoErr, calls)
      [] from.kind = "cmd" -> ExecuteCommand(from.arg, env, calls)
      [] from.kind = "github" -> FetchGithub(from.arg, env, calls)
      [] OTHER -> Ret("", <<"unknown or unset command source type">>, calls)

RECURSIVE materializeCommandsFromSkipInvalid(_, _, _, _, _, _)
\* the loop passing over the commands that have no name or no source
materializeCommandsFromSkipInvalid(i, cmds, idx, entries, env, calls) ==
    IF idx > Len(cmds) THEN Ret(entries, NoErr, calls)
    ELSE LET c == cmds[idx] IN
         IF c.name = "" \/ c.from.kind = "none"
         THEN materializeCommandsFromSkipInvalid(i, cmds, idx + 1, entries,
                                                 env, calls)
         ELSE LET r == fetchCommandContent(c.from, env, calls) IN
              IF r.err # NoErr
              THEN Ret(<<>>, Wrap(<<"failed to materialize command", c.name>>,
                                  r.err), r.calls)
              ELSE materializeCommandsFromSkipInvalid(i, cmds, idx + 1,
                       Append(entries,
                              FileRec(i.CommandsFolder \o "/" \o c.name
                                      \o ".md", r.val)),
                       env, r.calls)

RECURSIVE materializeCommandsFrom(_, _, _, _, _, _)
\* the loop of IDE.materializeCommands from command i on
materializeCommandsFrom(i, cmds, idx, entries, env, calls) ==
    IF idx > Len(cmds) THEN Ret(entries, NoErr, calls)
    ELSE LET c == cmds[idx] IN
         IF c.name = ""
         THEN Ret(<<>>, <<"command name cannot be empty">>, calls)
         ELSE IF c.from.kind = "none"
         THEN Ret(<<>>, <<"command must have a 'from' source", c.name>>, calls)
         ELSE LET r == fetchCommandContent(c.from, env, calls) IN
              IF r.err # NoErr
              THEN Ret(<<>>, Wrap(<<"failed to materialize command", c.name>>,
                                  r.err), r.calls)
              ELSE materializeCommandsFrom(i, cmds, idx + 1,
                       Append(entries,
                              FileRec(i.CommandsFolder \o "/" \o c.name
                                      \o ".md", r.val)),
                       env, r.calls)

\* IDE.materializeCommands
materializeCommands(i, cmds, env, calls) ==
    materializeCommandsFrom(i, cmds, 1, <<>>, env, calls)

RECURSIVE NonEmptyNames(_)
\* lines 70-77 of IDE.Materialize
NonEmptyNames(cmds) ==
    IF cmds = <<>> THEN <<>>
    ELSE IF Head(cmds).name = "" THEN NonEmptyNames(Tail(cmds))
    ELSE <<Head(cmds).name>> \o NonEmptyNames(Tail(cmds))

\* the orders in which ranging over the map of servers can yield its keys
RangeOrders(m) ==
    {o \in SeqsUpTo(Keys(m), Cardinality(Keys(m))) :
        /\ Len(o) = Cardinality(Keys(m))
        /\ \A a, b \in 1..Len(o) : a # b => o[a] # o[b]}

\* IDE.Materialize; order is the order the range over the servers took, and
\* existingSettings, existingMcp what the two files hold when they are read
IdeMaterialize(i, ide, order, existingSettings, existingMcp, env, calls) ==
    IF ide.isNil THEN Out(NilResult, <<"ide cannot be nil">>, calls, FALSE)
    ELSE LET c == IF ide.hasCommands
                  THEN materializeCommands(i, ide.commands, env, calls)
                  ELSE Ret(<<>>, NoErr, calls)
         IN
         IF c.err # NoErr THEN Out(NilResult, c.err, c.calls, FALSE)
         ELSE LET s == Update(i.Settings,
                              SettingsInput(ide.permissions,
                                  IF ide.mcp.isNil THEN <<>> ELSE order,
                                  IF ide.hasCommands
                                  THEN NonEmptyNames(ide.commands) ELSE <<>>),
                              existingSettings)
              IN
              IF s.err # NoErr THEN Out(NilResult, s.err, c.calls, FALSE)
              ELSE LET m == materializeMcp(ide.mcp, i.MCPServersJSONPath,
                                           existingMcp)
                   IN
                   IF m.err # NoErr THEN Out(NilResult, m.err, c.calls, FALSE)
                   ELSE Out(Result(c.val \o s.val \o m.val), NoErr, c.calls,
                            FALSE)

(***************************************************************************)
(* Prefetch (core/prefetch) and providers.Recipe.Materialize.              *)
(***************************************************************************)
\* osdd.PrefetchEntry: nil, a command, or no case set
NilPrefetchEntry == [kind |-> "nil", arg |-> ""]
PfCmd(op) == [kind |-> "cmd", arg |-> op]
PfTypeless == [kind |-> "typeless", arg |-> ""]

NilPrefetch == [isNil |-> TRUE, entries |-> <<>>]
Prefetch(es) == [isNil |-> FALSE, entries |-> es]

FetchedData(id, data) == [id |-> id, data |-> data]

\* protojson.Unmarshal of a command's output into osdd.PrefetchResult: what
\* the outputs of the commands of this development hold
ParsePrefetchResult(data) ==
    CASE data = Output("f1") ->
            [ok |-> TRUE, data |-> <<FetchedData("k1", "F1")>>]
      [] data = Output("f2") ->
            [ok |-> TRUE, data |-> <<FetchedData("k2", "F2"),
                                     FetchedData("k1", "F1b")>>]
      [] data = Output("f3") -> [ok |-> FALSE, data |-> <<>>]
      [] data = Output("f6") ->
            [ok |-> TRUE, data |-> <<FetchedData("k3", "F3"),
                                     FetchedData("k3", "F3b")>>]
      [] OTHER -> [ok |-> TRUE, data |-> <<>>]

\* Processor.processEntry
processEntry(entry, env, calls) ==
    IF entry.kind = "cmd"
    THEN LET r == ExecuteCommand(entry.arg, env, calls) IN
         IF r.err # NoErr
         THEN Ret("", Wrap(<<"command execution failed">>, r.err), r.calls)
         ELSE r
    ELSE Ret("", <<"unknown or unset prefetch entry type">>, calls)

RECURSIVE PutAllFirstWins(_, _)
\* the result map keeping the first data of an id
PutAllFirstWins(m, ds) ==
    IF ds = <<>> THEN m
    ELSE PutAllFirstWins([k \in Keys(m) \cup {Head(ds).id} |->
                            IF k \in Keys(m) THEN m[k] ELSE Head(ds).data],
                         Tail(ds))

RECURSIVE PutAll(_, _)
\* lines 37-39 of Process: result[d.GetId()] = d, in order
PutAll(m, ds) ==
    IF ds = <<>> THEN m
    ELSE PutAll([k \in Keys(m) \cup {Head(ds).id} |->
                    IF k = Head(ds).id THEN Head(ds).data ELSE m[k]],
                Tail(ds))

RECURSIVE ProcessFromSkippingBad(_, _, _, _, _)
\* the loop going on to the next entry when one cannot be processed
ProcessFromSkippingBad(es, i, result, env, calls) ==
    IF i > Len(es) THEN Ret(result, NoErr, calls)
    ELSE IF es[i].kind = "nil"
    THEN ProcessFromSkippingBad(es, i + 1, result, env, calls)
    ELSE LET r == processEntry(es[i], env, calls) IN
         IF r.err # NoErr
         THEN ProcessFromSkippingBad(es, i + 1, result, env, r.calls)
         ELSE LET res == ParsePrefetchResult(r.val) IN
              IF ~res.ok
              THEN ProcessFromSkippingBad(es, i + 1, result, env, r.calls)
              ELSE ProcessFromSkippingBad(es, i + 1, PutAll(result, res.data),
                                          env, r.calls)

RECURSIVE ProcessFrom(_, _, _, _, _)
\* the loop of Processor.Process from entry i on
ProcessFrom(es, i, result, env, calls) ==
    IF i > Len(es) THEN Ret(result, NoErr, calls)
    ELSE IF es[i].kind = "nil"
    THEN Ret(EmptyMap, <<"prefetch entry is nil", ToString(i - 1)>>, calls)
    ELSE LET r == processEntry(es[i], env, calls) IN
         IF r.err # NoErr
         THEN Ret(EmptyMap,
                  Wrap(<<"failed to process entry", ToString(i - 1)>>, r.err),
                  r.calls)
         ELSE LET res == ParsePrefetchResult(r.val) IN
              IF ~res.ok
              THEN Ret(EmptyMap, <<"failed to unmarshal prefetch result">>,
                       r.calls)
              ELSE ProcessFrom(es, i + 1, PutAll(result, res.data), env,
                               r.calls)

\* Processor.Process
Process(prefetch, env, calls) ==
    IF Len(prefetch.entries) = 0 THEN Ret(EmptyMap, NoErr, calls)
    ELSE ProcessFrom(prefetch.entries, 1, EmptyMap, env, calls)

\* recipes.Recipe
NilRecipe ==
    [isNil |-> TRUE, prefetch |-> NilPrefetch, context |-> NilContext,
     ide |-> NilIde]

Recipe(prefetch, contextMsg, ide) ==
    [isNil |-> FALSE, prefetch |-> prefetch, context |-> contextMsg,
     ide |-> ide]

\* lines 33-35 of Recipe.Materialize: genCtx.Prefetched[k] = v
MergePrefetched(g, entries) ==
    [g EXCEPT !.Prefetched =
        [k \in Keys(g.Prefetched) \cup Keys(entries) |->
            IF k \in Keys(entries) THEN entries[k] ELSE g.Prefetched[k]]]

(***************************************************************************)
(* A run of Recipe.Materialize is the record                               *)
(*   [pc, recipe, i, g, g0, env, order, existingSettings, existingMcp,     *)
(*    calls, entries, out]                                                 *)
(* pc is the stage the call is about to run; g is the GenerationContext    *)
(* the caller passed, which the prefetch stage updates in place, and g0    *)
(* what it held at the call.                                               *)
(***************************************************************************)
Finish(run, out) == [run EXCEPT !.pc = "done", !.out = out]

\* lines 22-36: the prefetch stage
StagePrefetch(run) ==
    IF run.recipe.isNil
    THEN Finish(run, Out(NilResult, <<"recipe cannot be nil">>, run.calls,
                         FALSE))
    ELSE IF run.recipe.prefetch.isNil THEN [run EXCEPT !.pc = "context"]
    ELSE LET r == Process(run.recipe.prefetch, run.env, run.calls) IN
         IF r.err # NoErr
         THEN Finish(run, Out(NilResult,
                              Wrap(<<"failed to process prefetch">>, r.err),
                              r.calls, FALSE))
         ELSE IF run.g.isNil
         THEN Finish(run, Out(NilResult, NoErr, r.calls, TRUE))
         ELSE [run EXCEPT !.pc = "context", !.calls = r.calls,
                          !.g = MergePrefetched(run.g, r.val)]

\* the context stage going on to the IDE stage whatever the generator returns
StageContextGoingOn(run) ==
    IF run.recipe.context.isNil THEN [run EXCEPT !.pc = "ide"]
    ELSE LET o == ContextMaterialize(run.recipe.context, run.g, run.env,
                                     run.calls) IN
         IF o.panic THEN Finish(run, o)
         ELSE [run EXCEPT !.pc = "ide", !.calls = o.calls,
                          !.entries = o.result.entries]

\* lines 40-48: the context stage
StageContext(run) ==
    IF run.recipe.context.isNil THEN [run EXCEPT !.pc = "ide"]
    ELSE LET o == ContextMaterialize(run.recipe.context, run.g, run.env,
                                     run.calls) IN
         IF o.panic THEN Finish(run, o)
         ELSE IF o.err # NoErr
         THEN Finish(run, Out(NilResult,
                              Wrap(<<"failed to materialize context">>, o.err),
                              o.calls, FALSE))
         ELSE [run EXCEPT !.pc = "ide", !.calls = o.calls,
                          !.entries = o.result.entries]

\* lines 50-61: the IDE stage and the result
StageIde(run) ==
    IF run.recipe.ide.isNil
    THEN Finish(run, Out(Result(run.entries), NoErr, run.calls, FALSE))
    ELSE LET o == IdeMaterialize(run.i, run.recipe.ide, run.order,
                                 run.existingSettings, run.existingMcp,
                                 run.env, run.calls) IN
         IF o.err # NoErr
         THEN Finish(run, Out(NilResult,
                              Wrap(<<"failed to materialize IDE configuration">>,
                                   o.err),
                              o.calls, FALSE))
         ELSE Finish(run, Out(Result(run.entries \o o.result.entries), NoErr,
                              o.calls, FALSE))

\* no call of IDE.Materialize under way
IdleIdeRun ==
    [pc |-> "idle", i |-> PlainIDE, ide |-> NilIde, order |-> <<>>,
     existingSettings |-> EmptySettingsDoc, existingMcp |-> EmptyMcpDoc,
     env |-> [fail |-> {}], out |-> Out(NilResult, NoErr, <<>>, FALSE),
     order2 |-> <<>>, out2 |-> Out(NilResult, NoErr, <<>>, FALSE)]

\* no call of Recipe.Materialize under way
IdleRecipeRun ==
    [pc |-> "idle", recipe |-> NilRecipe, i |-> PlainIDE, g |-> NilGenCtx,
     g0 |-> NilGenCtx, env |-> [fail |-> {}], order |-> <<>>,
     existingSettings |-> EmptySettingsDoc, existingMcp |-> EmptyMcpDoc,
     calls |-> <<>>, entries |-> <<>>,
     out |-> Out(NilResult, NoErr, <<>>, FALSE)]

\* no call of Context.fetchContent under way
IdleResolveRun ==
    [pc |-> "idle", from |-> NoFrom, g |-> NilGenCtx, env |-> [fail |-> {}],
     out |-> Ret("", NoErr, <<>>)]

\* no call of Processor.Process under way
IdlePfRun ==
    [pc |-> "idle", prefetch |-> NilPrefetch, env |-> [fail |-> {}],
     out |-> Ret(EmptyMap, NoErr, <<>>)]

\* no call of Workspace.Materialize under way
IdleWsRun == [pc |-> "idle"]

\* no call of GitHub.FetchRecipe under way
IdleFetchRun == [pc |-> "idle"]

\* no executable Recipe
IdleExecRun == [pc |-> "idle"]

(***************************************************************************)
(* The file system.  The process runs in the directory Cwd, which exists.  *)
(***************************************************************************)
Cwd == <<"w", "c">>

\* the absolute normalized location a path names for the operating system
AbsOf(p) == IF p.abs THEN CleanSegs(TRUE, p.segs, <<>>)
            ELSE CleanSegs(TRUE, Cwd \o p.segs, <<>>)

DirNode == [kind |-> "dir", content |-> ""]
FileNode(c) == [kind |-> "file", content |-> c]

Prefixes(a) == {SubSeq(a, 1, k) : k \in 0..Len(a)}

Exists(f, a) == a \in DOMAIN f

\* os.MkdirAll: fails, changing nothing, when the path or one of its
\* ancestors is a file; otherwise the path and all its ancestors are
\* directories afterwards.
MkdirAllOk(f, a) == \A q \in Prefixes(a) : Exists(f, q) => f[q].kind = "dir"

MkdirAll(f, a) ==
    [q \in DOMAIN f \cup Prefixes(a) |-> IF Exists(f, q) THEN f[q] ELSE DirNode]

\* os.WriteFile: fails on a directory or under a missing parent; otherwise
\* the file holds exactly the content (created or truncated).
WriteFileOk(f, a) ==
    /\ a # <<>>
    /\ Exists(f, Front(a)) /\ f[Front(a)].kind = "dir"
    /\ Exists(f, a) => f[a].kind = "file"

\* os.WriteFile opening the file for append
WriteFileAppend(f, a, c) ==
    [q \in DOMAIN f \cup {a} |->
        IF q = a THEN FileNode((IF Exists(f, a) THEN f[a].content ELSE "") \o c)
        ELSE f[q]]

\* os.WriteFile: the file is created or truncated
WriteFile(f, a, c) ==
    [q \in DOMAIN f \cup {a} |-> IF q = a THEN FileNode(c) ELSE f[q]]

BaseFs == [q \in Prefixes(Cwd) |-> DirNode]

\* file systems the writer may start from
InitialFs ==
    { BaseFs,
      WriteFile(MkdirAll(WriteFile(BaseFs, <<"w", "c", "x">>, "old"),
                         <<"w", "c", "r">>),
                <<"w", "c", "r", "a">>, "old") }

(***************************************************************************)
(* PersistMaterializedResult (core/io.go).                                 *)
(***************************************************************************)
NilEntry == [kind |-> "nil", path |-> Path(FALSE, <<>>), content |-> ""]
FileEntry(p, c) == [kind |-> "file", path |-> p, content |-> c]
DirEntry(p) == [kind |-> "dir", path |-> p, content |-> ""]

PersistEntries ==
    { NilEntry,
      FileEntry(Path(FALSE, <<"a">>), "v1"),
      FileEntry(Path(FALSE, <<"a">>), "v2"),
      FileEntry(Path(FALSE, <<"a", "b">>), "v1"),
      FileEntry(Path(FALSE, <<"..", "x">>), "v1"),
      FileEntry(Path(FALSE, <<"a", "..", "..", "x">>), "v2"),
      FileEntry(Path(TRUE, <<"a">>), "v2"),
      FileEntry(Path(FALSE, <<>>), "v1"),
      FileEntry(Path(FALSE, <<".">>), "v1"),
      DirEntry(Path(FALSE, <<"a">>)),
      DirEntry(Path(FALSE, <<"d", "e">>)),
      DirEntry(Path(FALSE, <<"..">>)),
      DirEntry(Path(FALSE, <<"..", "x">>)),
      DirEntry(Path(TRUE, <<"..", "x">>)),
      DirEntry(Path(FALSE, <<>>)) }

PersistRoots ==
    { Path(FALSE, <<>>),                 \* ""
      Path(FALSE, <<".">>),              \* "."
      Path(FALSE, <<"r">>),
      Path(FALSE, <<"r", "s">>),
      Path(FALSE, <<"..">>),
      Path(TRUE, <<"w", "c", "r">>) }

PersistResults ==
    {Result(es) : es \in SeqsUpTo(PersistEntries, MaxEntries)} \cup {NilResult}

\* rel of lines 48-51 and 77-82: the cleaned entry path, made relative
RelOf(p) == LET c == Clean(p) IN IF c.abs THEN Path(FALSE, c.segs) ELSE c

\* full of lines 52 and 83-84
FullOf(root, p) == Clean(Join(root, RelOf(p)))

IdlePersist ==
    [pc |-> "idle", root |-> Path(FALSE, <<>>), result |-> NilResult, idx |-> 0,
     err |-> "none", errAt |-> 0, fs0 |-> BaseFs]

\* lines 23-37: the checks before the loop
PersistBegin ==
    /\ persist.pc = "start"
    /\ persist' =
         IF persist.root.segs = <<>> /\ ~persist.root.abs
         THEN [persist EXCEPT !.pc = "done", !.err = "root_empty"]
         ELSE IF persist.result.isNil
         THEN [persist EXCEPT !.pc = "done", !.err = "result_nil"]
         ELSE IF Len(persist.result.entries) = 0
         THEN [persist EXCEPT !.pc = "done", !.root = Clean(persist.root)]
         ELSE [persist EXCEPT !.pc = "loop", !.idx = 1,
                              !.root = Clean(persist.root)]
    /\ UNCHANGED <<fs, ctxRun, ideRun, recipeRun, resolveRun, pfRun,
                   wsRun, fetchRun, execRun>>

\* what one pass of the loop body (lines 39-103) does with entry e:
\* the error it returns ("none" to go on) and the file system it leaves
PersistOne(root, e, f) ==
    IF e.kind = "nil" THEN [err |-> "none", fs |-> f]
    ELSE IF e.kind = "dir"
    THEN IF e.path.segs = <<>> /\ ~e.path.abs THEN [err |-> "none", fs |-> f]
         ELSE LET full == FullOf(root, e.path) IN
              IF ~isPathWithinRoot(root, full)
              THEN [err |-> "dir_escapes", fs |-> f]
              ELSE IF ~MkdirAllOk(f, AbsOf(full))
              THEN [err |-> "mkdir_failed", fs |-> f]
              ELSE [err |-> "none", fs |-> MkdirAll(f, AbsOf(full))]
    ELSE IF e.path.segs = <<>> /\ ~e.path.abs
    THEN [err |-> "file_path_empty", fs |-> f]
    ELSE LET full == FullOf(root, e.path)
             dir  == Dir(full)
         IN
         IF ~isPathWithinRoot(root, full)
         THEN [err |-> "path_escapes", fs |-> f]
         ELSE IF ~MkdirAllOk(f, AbsOf(dir))
         THEN [err |-> "mkdirs_failed", fs |-> f]
         ELSE LET g == MkdirAll(f, AbsOf(dir)) IN
              IF ~WriteFileOk(g, AbsOf(full))
              THEN [err |-> "write_failed", fs |-> g]
              ELSE [err |-> "none",
                    fs |-> WriteFile(g, AbsOf(full), e.content)]

\* lines 39-104: one iteration of the loop, and the return after the last
PersistEntry ==
    /\ persist.pc = "loop"
    /\ LET r == PersistOne(persist.root, persist.result.entries[persist.idx], fs) IN
       /\ fs' = r.fs
       /\ persist' =
            IF r.err # "none"
            THEN [persist EXCEPT !.pc = "done", !.err = r.err,
                                 !.errAt = persist.idx]
            ELSE IF persist.idx = Len(persist.result.entries)
            THEN [persist EXCEPT !.pc = "done"]
            ELSE [persist EXCEPT !.idx = persist.idx + 1]
    /\ UNCHANGED <<ctxRun, ideRun, recipeRun, resolveRun, pfRun,
                   wsRun, fetchRun, execRun>>

(***************************************************************************)
(* Calls of Context.Materialize.                                           *)
(***************************************************************************)
CtxEntries ==
    { CtxEntry("p1", Text("T1"), <<>>),
      CtxEntry("p2", Cmd("c1"), <<>>),
      CtxEntry("p3", Cmd("c2"), <<"claude">>),
      CtxEntry("", Text("T1"), <<>>),
      CtxEntry("p4", NoFrom, <<>>),
      CtxEntry("", Cmd("c2"), <<"cursor">>),
      CtxEntry("p5", PrefetchId("k1"), <<>>),
      CtxEntry("p6", Combined(<<Text("T1"), Cmd("c2"), PrefetchId("k2")>>),
               <<>>),
      CtxEntry("p7", GitRepo("g1"), <<>>),
      CtxEntry("p8", UserInput(<<Param("a", "da", FALSE),
                                 Param("b", "db", TRUE)>>),
               <<"codex", "claude">>) }

Env(fail) == [fail |-> fail]

World(g, env) == [g |-> g, env |-> env]

Pre1 == [k \in {"k1"} |-> "D1"]
Pre2 == [k \in {"k1", "k2"} |-> IF k = "k1" THEN "D1" ELSE "D2"]
Ui1 == [k \in {"a"} |-> "va"]

\* the GenerationContext and the behaviour of the collaborators in a run
CtxWorlds ==
    { World(NilGenCtx, Env({})),
      World(GenCtx(EmptyMap, EmptyMap, "", ""), Env({"c1"})),
      World(GenCtx(Pre1, Ui1, "codex", "ws"), Env({})),
      World(GenCtx(Pre2, Ui1, "claude", ""), Env({"c2"})),
      World(GenCtx(Pre1, Ui1, "codex", "ws"), Env({"g1"})),
      World(GenCtx(Pre2, EmptyMap, "cursor", ""), Env({})) }

NoOut == Out(NilResult, NoErr, <<>>, FALSE)

IdleCtxRun ==
    [pc |-> "idle", contextMsg |-> NilContext, g |-> NilGenCtx,
     env |-> Env({}), out |-> NoOut]

\* a call of Context.Materialize, from entry to return
CallContextMaterialize ==
    /\ ctxRun.pc = "start"
    /\ ctxRun' = [ctxRun EXCEPT
                    !.pc = "done",
                    !.out = ContextMaterialize(ctxRun.contextMsg, ctxRun.g,
                                               ctxRun.env, <<>>)]
    /\ UNCHANGED <<fs, persist, ideRun, recipeRun, resolveRun, pfRun,
                   wsRun, fetchRun, execRun>>

InitContext ==
    /\ wsRun = IdleWsRun
    /\ fetchRun = IdleFetchRun
    /\ execRun = IdleExecRun
    /\ resolveRun = IdleResolveRun
    /\ pfRun = IdlePfRun
    /\ fs = BaseFs
    /\ persist = IdlePersist
    /\ ideRun = IdleIdeRun
    /\ recipeRun = IdleRecipeRun
    /\ \E w \in CtxWorlds,
          c \in {Context(es) : es \in SeqsUpTo(CtxEntries, MaxCtxEntries)}
                \cup {NilContext} :
         ctxRun = [pc |-> "start", contextMsg |-> c, g |-> w.g, env |-> w.env,
                   out |-> NoOut]

NextContext == CallContextMaterialize

SpecContext == InitContext /\ [][NextContext]_vars

(***************************************************************************)
(* Calls of PersistMaterializedResult.                                      *)
(***************************************************************************)
InitPersist ==
    /\ wsRun = IdleWsRun
    /\ fetchRun = IdleFetchRun
    /\ execRun = IdleExecRun
    /\ resolveRun = IdleResolveRun
    /\ pfRun = IdlePfRun
    /\ ctxRun = IdleCtxRun
    /\ ideRun = IdleIdeRun
    /\ recipeRun = IdleRecipeRun
    /\ fs \in InitialFs
    /\ \E root \in PersistRoots, res \in PersistResults :
         persist = [pc |-> "start", root |-> root, result |-> res, idx |-> 0,
                    err |-> "none", errAt |-> 0, fs0 |-> fs]

NextPersist == PersistBegin \/ PersistEntry

SpecPersist == InitPersist /\ [][NextPersist]_vars

(***************************************************************************)
(* Claims about the persistence writer.                                    *)
(***************************************************************************)
\* where the operating system finds root
RootAbs == AbsOf(Clean(persist.root))

\* the paths created or rewritten since the call began
Touched == {q \in DOMAIN fs : ~Exists(persist.fs0, q) \/ fs[q] # persist.fs0[q]}

HasPath(e) == e.kind \in {"file", "dir"} /\ ~(e.path.segs = <<>> /\ ~e.path.abs)

\* where a relative entry path leads from root, ".." resolved.  (An
\* absolute entry path is read inside root, as in a chroot, and cannot
\* leave it.)
TargetAbs(e) == CleanSegs(TRUE, RootAbs \o e.path.segs, <<>>)

Escapes(e) == HasPath(e) /\ ~e.path.abs /\ ~IsPrefixOf(RootAbs, TargetAbs(e))

PersistRunning == persist.pc \in {"loop", "done"} /\ ~persist.result.isNil

\* the entries the loop has looked at so far
Seen == IF persist.pc = "loop" THEN 1..(persist.idx - 1)
        ELSE IF persist.pc = "done" /\ ~persist.result.isNil
             THEN 1..Len(persist.result.entries)
             ELSE {}

\* C1: the writer creates or writes nothing outside root (the missing
\* ancestors of root itself, which MkdirAll creates as directories so that
\* root can exist, are not outside it); an entry whose path leads out of
\* root makes the call return an error, at that entry or before it, and
\* the entry's target is not created.
C1_NothingOutsideRoot ==
    /\ \A q \in Touched :
          \/ IsPrefixOf(RootAbs, q)
          \/ IsPrefixOf(q, RootAbs) /\ fs[q] = DirNode
    /\ \A i \in Seen :
          LET e == persist.result.entries[i] IN
          Escapes(e) =>
            /\ persist.pc = "done"
            /\ persist.err # "none"
            /\ persist.errAt <= i
            /\ TargetAbs(e) \in Touched => IsPrefixOf(TargetAbs(e), RootAbs)

\* an escaping entry was reached after an earlier entry had been written
C1_Witness ==
    /\ persist.pc = "done"
    /\ persist.err \in {"path_escapes", "dir_escapes"}
    /\ persist.errAt = 2
    /\ Touched # {}

\* C2: when the writer returns a containment error, nothing of the result
\* has been written: the file system is as it was before the call.
C2_NoPartialWrite ==
    (persist.pc = "done" /\ persist.err \in {"path_escapes", "dir_escapes"})
        => fs = persist.fs0

(***************************************************************************)
(* Claims about Context.Materialize.                                       *)
(***************************************************************************)
CtxDone == ctxRun.pc = "done" /\ ~ctxRun.out.panic /\ ~ctxRun.contextMsg.isNil

CtxEs == ctxRun.contextMsg.entries

\* the source of an entry fails to resolve in this run
ResolveFails(e) ==
    IF e.from.kind = "gitRepo" THEN e.from.arg \in ctxRun.env.fail
    ELSE fetchContent(e.from, ctxRun.g, ctxRun.env, <<>>).err # NoErr

BadEntry(e) == e.path = "" \/ e.from.kind = "none" \/ ResolveFails(e)

\* the external operations the resolution of one entry invokes
EntryCalls(e) ==
    IF e.path = "" \/ e.from.kind = "none" THEN <<>>
    ELSE materializeEntry(e, ctxRun.g, ctxRun.env, <<>>).calls

BadAt(i) == ~Skipped(CtxEs[i], ctxRun.g) /\ BadEntry(CtxEs[i])

HasBad == \E i \in 1..Len(CtxEs) : BadAt(i)

FirstBad == CHOOSE i \in 1..Len(CtxEs) :
                BadAt(i) /\ \A j \in 1..(i - 1) : ~BadAt(j)

RECURSIVE CallsUpTo(_)
\* the operations of the non-skipped entries 1..k, in document order
CallsUpTo(k) ==
    IF k = 0 THEN <<>>
    ELSE CallsUpTo(k - 1)
         \o (IF Skipped(CtxEs[k], ctxRun.g) THEN <<>> ELSE EntryCalls(CtxEs[k]))

\* C3: at the first non-skipped entry with an empty path, without 'from'
\* or whose source fails, Context.Materialize returns a nil result and an
\* error naming that entry's path; the records of the entries before it
\* are not returned and no entry after it is resolved.
C3_FailFast ==
    (CtxDone /\ HasBad) =>
        /\ ctxRun.out.result = NilResult
        /\ Len(ctxRun.out.err) >= 2
        /\ ctxRun.out.err[1] = "failed to materialize entry for path"
        /\ ctxRun.out.err[2] = CtxEs[FirstBad].path
        /\ ctxRun.out.calls = CallsUpTo(FirstBad)

\* the second of three entries fails, the first was resolved by a
\* collaborator and the third would have called one
C3_Witness ==
    /\ CtxDone /\ HasBad
    /\ Len(CtxEs) = 3 /\ FirstBad = 2
    /\ ~Skipped(CtxEs[1], ctxRun.g) /\ EntryCalls(CtxEs[1]) # <<>>
    /\ ~Skipped(CtxEs[3], ctxRun.g) /\ EntryCalls(CtxEs[3]) # <<>>

(***************************************************************************)
(* Calls of IDE.Materialize.                                               *)
(***************************************************************************)
Obj1(k, v) == k :> v
Obj2(k1, v1, k2, v2) == (k1 :> v1) @@ (k2 :> v2)

\* the existing MCP files
ExistingMcpDocs ==
    { EmptyMcpDoc,
      InvalidMcpDoc,
      McpDoc("object", TRUE,
             Obj1("a", [k \in {"type", "command", "args", "env"} |->
                          CASE k = "type" -> "stdio"
                            [] k = "command" -> "x"
                            [] k = "args" -> <<"1">>
                            [] k = "env" -> Obj1("K", "V")]),
             EmptyMap),
      McpDoc("object", TRUE,
             Obj1("a", [k \in {"command", "timeout"} |->
                          IF k = "command" THEN "x" ELSE "30"]),
             Obj1("version", "1")),
      McpDoc("object", TRUE,
             Obj2("a", [k \in {"type", "url"} |->
                          IF k = "type" THEN "http" ELSE "u0"],
                  "z", [k \in {"type", "command", "args", "env"} |->
                          CASE k = "type" -> "stdio"
                            [] k = "command" -> "y"
                            [] k = "args" -> <<>>
                            [] k = "env" -> EmptyMap]),
             Obj1("inputs", "I")),
      McpDoc("object", FALSE, EmptyMap, Obj2("inputs", "I", "version", "1")),
      McpDoc("object", TRUE, EmptyMap, EmptyMap) }

\* the existing settings files
ExistingSettingsDocs ==
    { EmptySettingsDoc,
      InvalidSettingsDoc,
      SettingsDoc("object",
                  [k \in {"allow", "deny", "ask"} |->
                      CASE k = "allow" -> <<"Bash(ls)", "mcp__a">>
                        [] k = "deny" -> <<"Write(/etc)">>
                        [] k = "ask" -> <<"Bash(git push)">>],
                  EmptyMap),
      SettingsDoc("object",
                  Obj1("allow", <<"Read(*)", "Read(*)", "SlashCommand(/refine)">>),
                  Obj1("enabledMcpjsonServers", <<"a">>)),
      SettingsDoc("object",
                  [k \in {"allow", "additionalDirectories"} |->
                      IF k = "allow" THEN <<"mcp__b">> ELSE "/x"],
                  Obj1("model", "large")),
      SettingsDoc("object",
                  [k \in {"defaultMode", "ask"} |->
                      IF k = "defaultMode" THEN "plan" ELSE <<>>],
                  Obj1("enableAllProjectMcpServers", FALSE)) }

\* the declared commands: none, or a list
IdeCommands ==
    { [has |-> FALSE, cmds |-> <<>>],
      [has |-> TRUE, cmds |-> <<>>],
      [has |-> TRUE, cmds |-> <<Command("refine", Text("T1"))>>],
      [has |-> TRUE, cmds |-> <<Command("refine", Cmd("i1")),
                                Command("run", Github("i2"))>>],
      [has |-> TRUE, cmds |-> <<Command("run", Text("T1")),
                                Command("run", Text("T2"))>>],
      [has |-> TRUE, cmds |-> <<Command("run", Text("T1")),
                                Command("", Text("T2"))>>],
      [has |-> TRUE, cmds |-> <<Command("run", NoFrom)>>],
      [has |-> TRUE, cmds |-> <<Command("refine", Cmd("i1")),
                                Command("plan", NoFrom)>>] }

IdePermissions ==
    { NilPermissions,
      Permissions(<<Perm("bash", "ls")>>, <<>>),
      Permissions(<<Perm("bash", "ls"), Perm("read", "*"), Perm("none", ""),
                    Perm("bash", "ls")>>,
                  <<Perm("write", "/etc"), Perm("write", "/etc"),
                    Perm("bash", "rm")>>),
      Permissions(<<Perm("network", "host")>>, <<Perm("read", "secret")>>) }

IdeMcps ==
    { NilMcp,
      Mcp(EmptyMap),
      Mcp(Obj1("a", HttpServer("u1"))),
      Mcp(Obj1("b", StdioServer(<<"npx", "srv">>, <<>>))),
      Mcp(Obj2("a", StdioServer(<<"run", "it">>, <<"-x">>),
               "b", HttpServer("u2"))),
      Mcp(Obj1("a", TypelessServer)),
      Mcp(Obj2("z", StdioServer(<<>>, <<"-y">>), "c", TypelessServer)) }

Ides ==
    {NilIde} \cup
    {Ide(c.has, c.cmds, p, m) : c \in IdeCommands, p \in IdePermissions,
                                m \in IdeMcps}

\* the adapter called and the behaviour of the collaborators
IdeWorlds ==
    { [i |-> ClaudeIDE, env |-> Env({})],
      [i |-> ClaudeIDE, env |-> Env({"i1"})],
      [i |-> PlainIDE, env |-> Env({"i2"})] }

\* IDE.Materialize
CallIdeMaterialize ==
    /\ ideRun.pc = "start"
    /\ \E order \in RangeOrders(ideRun.ide.mcp.servers) :
         ideRun' = [ideRun EXCEPT
                      !.pc = "done",
                      !.order = order,
                      !.out = IdeMaterialize(ideRun.i, ideRun.ide, order,
                                             ideRun.existingSettings,
                                             ideRun.existingMcp, ideRun.env,
                                             <<>>)]
    /\ UNCHANGED <<fs, persist, ctxRun, recipeRun, resolveRun, pfRun,
                   wsRun, fetchRun, execRun>>

\* the content of the file at path after the entries are persisted over a
\* file holding old
ContentAfter(entries, path, old) ==
    IF \E j \in 1..Len(entries) : entries[j].path = path
    THEN entries[CHOOSE j \in 1..Len(entries) :
                    /\ entries[j].path = path
                    /\ \A l \in (j + 1)..Len(entries) : entries[l].path # path]
             .content
    ELSE old

\* IDE.Materialize called again with the same configuration, the settings
\* and MCP files being those the first call returned
CallIdeMaterializeAgain ==
    /\ ideRun.pc = "done"
    /\ ideRun.out.err = NoErr /\ ~ideRun.out.result.isNil
    /\ \E order \in RangeOrders(ideRun.ide.mcp.servers) :
         ideRun' = [ideRun EXCEPT
                      !.pc = "done2",
                      !.order2 = order,
                      !.out2 = IdeMaterialize(
                                  ideRun.i, ideRun.ide, order,
                                  ContentAfter(ideRun.out.result.entries,
                                               SettingsPath,
                                               ideRun.existingSettings),
                                  ContentAfter(ideRun.out.result.entries,
                                               ideRun.i.MCPServersJSONPath,
                                               ideRun.existingMcp),
                                  ideRun.env, <<>>)]
    /\ UNCHANGED <<fs, persist, ctxRun, recipeRun, resolveRun, pfRun,
                   wsRun, fetchRun, execRun>>

InitIde ==
    /\ wsRun = IdleWsRun
    /\ fetchRun = IdleFetchRun
    /\ execRun = IdleExecRun
    /\ resolveRun = IdleResolveRun
    /\ pfRun = IdlePfRun
    /\ fs = BaseFs
    /\ persist = IdlePersist
    /\ ctxRun = IdleCtxRun
    /\ recipeRun = IdleRecipeRun
    /\ \E w \in IdeWorlds, ide \in Ides, es \in ExistingSettingsDocs,
          em \in ExistingMcpDocs :
         ideRun = [pc |-> "start", i |-> w.i, ide |-> ide, order |-> <<>>,
                   existingSettings |-> es, existingMcp |-> em,
                   env |-> w.env, out |-> NoOut, order2 |-> <<>>,
                   out2 |-> NoOut]

NextIde == CallIdeMaterialize \/ CallIdeMaterializeAgain

SpecIde == InitIde /\ [][NextIde]_vars

\* the File entries with a path, by position
FileEntriesAt ==
    {j \in 1..Len(persist.result.entries) :
        persist.result.entries[j].kind = "file"
        /\ HasPath(persist.result.entries[j])}

PersistOk ==
    persist.pc = "done" /\ persist.err = "none" /\ ~persist.result.isNil

\* the last File entry naming the file that entry j names
LastFor(j) ==
    CHOOSE l \in FileEntriesAt :
        /\ TargetAbs(persist.result.entries[l]) =
              TargetAbs(persist.result.entries[j])
        /\ \A m \in FileEntriesAt :
              TargetAbs(persist.result.entries[m]) =
                  TargetAbs(persist.result.entries[j]) => m <= l

\* C12: after a successful PersistMaterializedResult the file at
\* root/<path> of each File entry holds exactly the content of the last
\* entry of the list that names that file; what the file held before is
\* replaced.
C12_ReadBack ==
    PersistOk =>
        \A j \in FileEntriesAt :
            LET t == TargetAbs(persist.result.entries[j]) IN
            /\ Exists(fs, t)
            /\ fs[t] = FileNode(persist.result.entries[LastFor(j)].content)

\* a file that existed is written twice with different contents
C12_Witness ==
    /\ PersistOk
    /\ Cardinality(FileEntriesAt) = 2
    /\ LastFor(1) = 2
    /\ persist.result.entries[1].content # persist.result.entries[2].content
    /\ Exists(persist.fs0, TargetAbs(persist.result.entries[1]))
    /\ persist.fs0[TargetAbs(persist.result.entries[1])].kind = "file"
    /\ persist.fs0[TargetAbs(persist.result.entries[1])].content #
          persist.result.entries[2].content

\* the entries that declare a non-empty filter without the active tool
FilteredOut ==
    {j \in 1..Len(CtxEs) :
        /\ Len(CtxEs[j].filter) > 0
        /\ ~InSeq(ctxRun.g.IDE, CtxEs[j].filter)}

RECURSIVE PathsOf(_, _)
\* the paths of the entries 1..k outside S, in document order
PathsOf(S, k) ==
    IF k = 0 THEN <<>>
    ELSE PathsOf(S, k - 1) \o (IF k \in S THEN <<>> ELSE <<CtxEs[k].path>>)

RECURSIVE CallsOf(_, _)
\* the operations of the entries 1..k outside S, in document order
CallsOf(S, k) ==
    IF k = 0 THEN <<>>
    ELSE CallsOf(S, k - 1) \o (IF k \in S THEN <<>> ELSE EntryCalls(CtxEs[k]))

\* the call treated exactly the entries of S as skipped: they were neither
\* validated nor resolved and gave no record, and every other entry was
\* validated and resolved up to the first bad one
SkippedExactly(S) ==
    LET out == ctxRun.out
        bad == {j \in 1..Len(CtxEs) \ S : BadEntry(CtxEs[j])}
    IN IF out.err = NoErr
       THEN /\ bad = {}
            /\ [j \in 1..Len(out.result.entries) |->
                   out.result.entries[j].path] = PathsOf(S, Len(CtxEs))
            /\ out.calls = CallsOf(S, Len(CtxEs))
       ELSE \E fb \in bad :
               /\ \A j \in bad : fb <= j
               /\ out.err[2] = CtxEs[fb].path
               /\ out.calls = CallsOf(S, fb)

\* C13 as stated: the entries skipped are exactly those with a non-empty
\* filter that does not contain the active tool identifier.
C13_SkippedIffFilteredOut == CtxDone => SkippedExactly(FilteredOut)

\* C13: with a GenerationContext that names an active tool, the entries
\* skipped are exactly those with a non-empty filter that does not contain
\* it; with one that names no tool (an empty identifier) no entry is
\* skipped; an entry with no filter or an empty one is never skipped.
C13_SkippedIffFilteredOutOfSetTool ==
    CtxDone =>
        SkippedExactly(IF ctxRun.g.IDE = "" THEN {} ELSE FilteredOut)

\* no tool is active, and an entry with a filter is resolved and recorded
C13_Witness ==
    /\ CtxDone
    /\ ~ctxRun.g.isNil /\ ctxRun.g.IDE = ""
    /\ ctxRun.out.err = NoErr
    /\ Len(CtxEs) = 2
    /\ CtxEs[1].filter = <<>> /\ CtxEs[2].filter # <<>>
    /\ Len(ctxRun.out.result.entries) = 2
    /\ EntryCalls(CtxEs[2]) # <<>>

\* the entries the call does not skip
Kept ==
    {j \in 1..Len(CtxEs) :
        ~(/\ Len(CtxEs[j].filter) > 0
          /\ ctxRun.g.IDE # ""
          /\ ~InSeq(ctxRun.g.IDE, CtxEs[j].filter))}

\* the record due for an entry
RecordFor(e) ==
    IF e.from.kind = "gitRepo"
    THEN [kind |-> "dir", path |-> e.path, content |-> ""]
    ELSE [kind |-> "file", path |-> e.path,
          content |-> fetchContent(e.from, ctxRun.g, ctxRun.env, <<>>).val]

RECURSIVE RecordsUpTo(_)
\* the records of the kept entries 1..k, in document order
RecordsUpTo(k) ==
    IF k = 0 THEN <<>>
    ELSE RecordsUpTo(k - 1)
         \o (IF k \in Kept THEN <<RecordFor(CtxEs[k])>> ELSE <<>>)

\* C14: on success Context.Materialize returns the records of the
\* non-skipped entries in document order, a Directory record with the entry
\* path for a GitRepository source and otherwise a File record with the
\* entry path and the resolved content.
C14_RecordsInOrder ==
    (CtxDone /\ ctxRun.out.err = NoErr) =>
        /\ ~ctxRun.out.result.isNil
        /\ ctxRun.out.result.entries = RecordsUpTo(Len(CtxEs))

\* a repository cloned below the workspace, a skipped entry and a file
C14_Witness ==
    /\ CtxDone /\ ctxRun.out.err = NoErr
    /\ Len(CtxEs) = 3
    /\ Kept = {1, 3}
    /\ CtxEs[1].from.kind = "gitRepo" /\ ctxRun.g.WorkspacePath # ""
    /\ CtxEs[3].from.kind = "cmd"
    /\ Len(ctxRun.out.result.entries) = 2
    /\ ctxRun.out.result.entries[1].kind = "dir"
    /\ ctxRun.out.result.entries[2].kind = "file"

(***************************************************************************)
(* Calls of Context.fetchContent.                                          *)
(***************************************************************************)
\* the sub-items of Combined sources; each is a top-level source as well
ResolveItems ==
    { Text("A"), Text("B"), Text(""), Cmd("c1"), Cmd("c2"), Github("h1"),
      PrefetchId("k1"), PrefetchId("k2"), LocalFile("l1"), LocalFile(""),
      Typeless,
      UserInput(<<Param("a", "da", FALSE), Param("b", "db", TRUE)>>) }

ResolveParams ==
    { Param("a", "da", FALSE), Param("b", "db", TRUE),
      Param("c", "dc", FALSE), Param("", "dx", FALSE) }

ResolveSources ==
    ResolveItems
    \cup {Combined(items) : items \in SeqsUpTo(ResolveItems, MaxItems)}
    \cup {UserInput(ps) : ps \in SeqsUpTo(ResolveParams, MaxParams)}

ResolveWorlds ==
    { World(NilGenCtx, Env({})),
      World(GenCtx(EmptyMap, EmptyMap, "", ""), Env({"c1"})),
      World(GenCtx(Pre1, Ui1, "codex", "ws"), Env({"h1", "l1"})),
      World(GenCtx(Pre2, Ui1, "claude", ""), Env({"c2"})),
      World(GenCtx(Pre2, [k \in {"a", "c"} |-> "v" \o k], "claude", ""),
            Env({})),
      World(GenCtx(Pre1, [k \in {"b", "c"} |-> "v" \o k], "", ""), Env({})) }

\* Context.fetchContent
CallFetchContent ==
    /\ resolveRun.pc = "start"
    /\ resolveRun' = [resolveRun EXCEPT
                        !.pc = "done",
                        !.out = fetchContent(resolveRun.from, resolveRun.g,
                                             resolveRun.env, <<>>)]
    /\ UNCHANGED <<fs, persist, ctxRun, ideRun, recipeRun, pfRun,
                   wsRun, fetchRun, execRun>>

InitResolve ==
    /\ wsRun = IdleWsRun
    /\ fetchRun = IdleFetchRun
    /\ execRun = IdleExecRun
    /\ fs = BaseFs
    /\ persist = IdlePersist
    /\ ctxRun = IdleCtxRun
    /\ ideRun = IdleIdeRun
    /\ recipeRun = IdleRecipeRun
    /\ pfRun = IdlePfRun
    /\ \E from \in ResolveSources, w \in ResolveWorlds :
         resolveRun = [pc |-> "start", from |-> from, g |-> w.g,
                       env |-> w.env, out |-> Ret("", NoErr, <<>>)]

NextResolve == CallFetchContent

SpecResolve == InitResolve /\ [][NextResolve]_vars

(***************************************************************************)
(* Claims about the Source Resolver.                                       *)
(***************************************************************************)
ResolveDone == resolveRun.pc = "done"

CombinedDone == ResolveDone /\ resolveRun.from.kind = "combined"

Items == resolveRun.from.items

\* a sub-item resolved on its own
ItemOut(j) ==
    fetchCombinedItem(Items[j], resolveRun.g, resolveRun.env, <<>>)

Failing == {j \in 1..Len(Items) : ItemOut(j).err # NoErr}

RECURSIVE ConcatVals(_)
\* the contents of the sub-items 1..k one after the other
ConcatVals(k) == IF k = 0 THEN "" ELSE ConcatVals(k - 1) \o ItemOut(k).val

RECURSIVE ConcatCalls(_)
\* the operations of the sub-items 1..k one after the other
ConcatCalls(k) == IF k = 0 THEN <<>> ELSE ConcatCalls(k - 1) \o ItemOut(k).calls

\* C15: a Combined source resolves to its sub-items' contents concatenated
\* in declared order with nothing between them ("" for no sub-item); the
\* first sub-item that fails aborts it with an error carrying that
\* sub-item's 0-based index, and no later sub-item is resolved.
C15_CombinedConcat ==
    CombinedDone =>
        IF Failing = {}
        THEN /\ resolveRun.out.err = NoErr
             /\ resolveRun.out.val = ConcatVals(Len(Items))
             /\ resolveRun.out.calls = ConcatCalls(Len(Items))
        ELSE LET fb == CHOOSE j \in Failing : \A l \in Failing : j <= l IN
             /\ resolveRun.out.val = ""
             /\ Len(resolveRun.out.err) > 2
             /\ resolveRun.out.err[1] = "failed to fetch combined item"
             /\ resolveRun.out.err[2] = ToString(fb - 1)
             /\ SubSeq(resolveRun.out.err, 3, Len(resolveRun.out.err)) =
                   ItemOut(fb).err
             /\ resolveRun.out.calls = ConcatCalls(fb)

\* three sub-items resolve by collaborators and text
C15_WitnessOk ==
    /\ CombinedDone /\ Len(Items) = 3 /\ Failing = {}
    /\ Len(resolveRun.out.calls) = 2
    /\ Items[2].kind = "text" /\ Items[2].arg # ""

\* the second of three sub-items fails after the first called a
\* collaborator; the third would have called one
C15_Witness ==
    /\ CombinedDone /\ Len(Items) = 3
    /\ Failing = {2}
    /\ ItemOut(1).calls # <<>> /\ ItemOut(3).calls # <<>>
    /\ resolveRun.out.err[2] = "1"

\* the prefetch cache of the GenerationContext of the call; none when the
\* context is nil
Cache == IF resolveRun.g.isNil THEN EmptyMap ELSE resolveRun.g.Prefetched

NotFound(k) == <<"prefetch id not found", k>>

\* C18: a PrefetchId source, at top level or as a Combined sub-item,
\* resolves to the data the prefetch cache holds under its key and fails
\* with 'prefetch id not found' when the key is absent, the cache being
\* empty or never built included; a missing key never gives empty content.
C18_PrefetchIdLookup ==
    /\ (ResolveDone /\ resolveRun.from.kind = "prefetchId") =>
          LET k == resolveRun.from.arg IN
          IF k \in DOMAIN Cache
          THEN resolveRun.out.err = NoErr /\ resolveRun.out.val = Cache[k]
          ELSE resolveRun.out.err = NotFound(k)
    /\ CombinedDone =>
          \A j \in 1..Len(Items) :
              (Items[j].kind = "prefetchId"
               /\ \A l \in 1..(j - 1) : l \notin Failing) =>
                  LET k == Items[j].arg IN
                  IF k \in DOMAIN Cache
                  THEN /\ j \notin Failing
                       /\ ItemOut(j).val = Cache[k]
                       /\ Failing = {} =>
                             resolveRun.out.val = ConcatVals(Len(Items))
                  ELSE /\ resolveRun.out.val = ""
                       /\ resolveRun.out.err =
                             <<"failed to fetch combined item",
                               ToString(j - 1)>> \o NotFound(k)

\* a sub-item names a key the cache lacks while it holds another one
C18_Witness ==
    /\ CombinedDone /\ Len(Items) = 2
    /\ Items[1].kind = "prefetchId" /\ Items[1].arg \in DOMAIN Cache
    /\ Items[2].kind = "prefetchId" /\ Items[2].arg \notin DOMAIN Cache
    /\ resolveRun.out.err # NoErr

UserInputDone == ResolveDone /\ resolveRun.from.kind = "userInput"

\* the parameters the source declares (a parameter has a name) and the
\* values the GenerationContext carries
Declared19 ==
    LET ps == resolveRun.from.items IN
    SelectSeq(ps, LAMBDA q : q.name # "")

UserVals == IF resolveRun.g.isNil THEN EmptyMap ELSE resolveRun.g.UserInput

MissingAt ==
    {j \in 1..Len(Declared19) :
        ~Declared19[j].optional /\ Declared19[j].name \notin DOMAIN UserVals}

RECURSIVE MissingNames(_)
\* the names of the missing parameters among 1..k, joined by ", "
MissingNames(k) ==
    IF k = 0 THEN ""
    ELSE IF k \notin MissingAt THEN MissingNames(k - 1)
    ELSE IF \E l \in MissingAt : l < k
         THEN MissingNames(k - 1) \o ", " \o Declared19[k].name
         ELSE Declared19[k].name

RECURSIVE Sections(_)
\* the sections of the parameters 1..k of the document
Sections(k) ==
    IF k = 0 THEN ""
    ELSE Sections(k - 1)
         \o "## " \o Declared19[k].name
         \o "\n\n**Description**: " \o Declared19[k].desc
         \o "\n\n**Value**: "
         \o (IF Declared19[k].name \in DOMAIN UserVals
             THEN UserVals[Declared19[k].name] ELSE "")
         \o "\n\n"
         \o (IF k < Len(Declared19) THEN "---\n\n" ELSE "")

\* C19: rendering a UserInput source fails exactly when some declared
\* non-optional parameter has no value in the user-input map; the error
\* lists the names of all of them in declaration order joined by ", " and
\* no document is returned; otherwise the document is returned, an absent
\* optional parameter having an empty value.
C19_MissingRequired ==
    UserInputDone =>
        IF MissingAt # {}
        THEN /\ resolveRun.out.val = ""
             /\ resolveRun.out.err =
                   <<"missing required user input parameters",
                     MissingNames(Len(Declared19))>>
        ELSE /\ resolveRun.out.err = NoErr
             /\ resolveRun.out.val =
                   IF Len(resolveRun.from.items) = 0 THEN ""
                   ELSE "# User Input\n\n" \o Sections(Len(Declared19))

\* two required parameters are missing around an absent optional one
C19_Witness ==
    /\ UserInputDone
    /\ Len(Declared19) = 3
    /\ MissingAt = {1, 3}
    /\ Declared19[2].optional /\ Declared19[2].name \notin DOMAIN UserVals
    /\ resolveRun.out.err[2] = "a, c"

\* an absent optional parameter is rendered with an empty value
C19_WitnessOptional ==
    /\ UserInputDone
    /\ resolveRun.out.err = NoErr
    /\ Len(Declared19) = 2
    /\ Declared19[2].optional /\ Declared19[2].name \notin DOMAIN UserVals
    /\ ~Declared19[1].optional

(***************************************************************************)
(* Claims about the IDE adapter.                                           *)
(***************************************************************************)
IdeDone == ideRun.pc = "done"

IdeOk == IdeDone /\ ideRun.out.err = NoErr /\ ~ideRun.out.result.isNil

IdeEntries == ideRun.out.result.entries

EntryAt(path) == CHOOSE j \in 1..Len(IdeEntries) : IdeEntries[j].path = path

HasEntry(path) == \E j \in 1..Len(IdeEntries) : IdeEntries[j].path = path

\* the adapter returned an MCP file
McpWritten ==
    IdeOk /\ ideRun.i.MCPServersJSONPath # ""
          /\ HasEntry(ideRun.i.MCPServersJSONPath)

NewMcp == IdeEntries[EntryAt(ideRun.i.MCPServersJSONPath)].content

OldServers == ideRun.existingMcp.servers

Declared == ideRun.ide.mcp.servers

DeclaredTyped == {n \in Keys(Declared) : Declared[n].type # "none"}

\* the adapter returned a settings file
SettingsWritten == IdeOk /\ HasEntry(SettingsPath)

NewSettings == IdeEntries[EntryAt(SettingsPath)].content

OldSettings == ideRun.existingSettings

\* C5: the MCP file the adapter produces holds every server of the existing
\* file that the recipe does not redeclare, with all its fields unchanged,
\* and one entry per declared server with a type; nothing else.
C5_McpMergeKeepsServers ==
    McpWritten =>
        /\ Keys(NewMcp.servers) = Keys(OldServers) \cup DeclaredTyped
        /\ \A n \in Keys(OldServers) \ DeclaredTyped :
              NewMcp.servers[n] = OldServers[n]
        /\ \A n \in DeclaredTyped :
              NewMcp.servers[n]["type"] = Declared[n].type

\* C6: every top-level key of the existing MCP file other than "mcpServers"
\* is in the rewritten MCP file with its original value.
C6_TopLevelKeysKept ==
    McpWritten =>
        \A k \in Keys(ideRun.existingMcp.extra) :
            /\ k \in Keys(NewMcp.extra)
            /\ NewMcp.extra[k] = ideRun.existingMcp.extra[k]

\* an existing file with servers and other top-level keys is merged with
\* declared servers
C6_Witness ==
    /\ McpWritten
    /\ Keys(ideRun.existingMcp.extra) # {}
    /\ Keys(OldServers) # {}
    /\ DeclaredTyped # {}
    /\ Keys(NewMcp.servers) # Keys(OldServers)

SetByRunPerms == {"allow", "deny", "defaultMode"}

SetByRunTop == {"enabledMcpjsonServers", "enableAllProjectMcpServers"}

\* C7: every key of the existing settings file that the run does not set,
\* at the top level and under "permissions", is in the settings file
\* produced with its original value.
C7_SettingsKeysKept ==
    (SettingsWritten /\ OldSettings.kind = "object") =>
        /\ \A k \in Keys(OldSettings.perms) \ SetByRunPerms :
              /\ k \in Keys(NewSettings.perms)
              /\ NewSettings.perms[k] = OldSettings.perms[k]
        /\ \A k \in Keys(OldSettings.top) \ SetByRunTop :
              /\ k \in Keys(NewSettings.top)
              /\ NewSettings.top[k] = OldSettings.top[k]

UnparsableSettings ==
    /\ IdeDone
    /\ ~ideRun.ide.isNil
    /\ ideRun.i.Settings = "claude"
    /\ OldSettings.kind = "invalid"

\* C8 as stated: with an unparsable existing settings file the adapter's
\* Materialize fails with no entries.
C8_UnparsableSettingsFail ==
    UnparsableSettings =>
        ideRun.out.err # NoErr /\ ideRun.out.result.isNil

\* C8: with an unparsable existing settings file the settings strategy
\* returns no error; the call ends as it does with no settings file at all,
\* and the settings it returns hold the declarations of the run only.
C8_UnparsableSettingsStartFresh ==
    UnparsableSettings =>
        /\ ideRun.out = IdeMaterialize(ideRun.i, ideRun.ide, ideRun.order,
                                       EmptySettingsDoc, ideRun.existingMcp,
                                       ideRun.env, <<>>)
        /\ ideRun.out.err # NoErr =>
              ideRun.out.err[1] \in {"command name cannot be empty",
                                     "command must have a 'from' source",
                                     "failed to materialize command",
                                     "failed to parse existing mcp json"}
        /\ IdeOk =>
              /\ SettingsWritten
              /\ Keys(NewSettings.perms) \subseteq SetByRunPerms
              /\ Keys(NewSettings.top) \subseteq SetByRunTop

\* the call succeeds over an unparsable settings file and returns settings
C8_Witness ==
    /\ UnparsableSettings
    /\ SettingsWritten
    /\ ~ideRun.ide.permissions.isNil
    /\ "allow" \in Keys(NewSettings.perms)

RECURSIVE DedupFrom(_, _)
\* the elements of s from position i on that occur at no earlier position
DedupFrom(s, i) ==
    IF i > Len(s) THEN <<>>
    ELSE (IF \E j \in 1..(i - 1) : s[j] = s[i] THEN <<>> ELSE <<s[i]>>)
         \o DedupFrom(s, i + 1)

Dedup(s) == DedupFrom(s, 1)

OldList(k) ==
    IF OldSettings.kind = "object" THEN Get(OldSettings.perms, k, <<>>)
    ELSE <<>>

NewList(k) == Get(NewSettings.perms, k, <<>>)

DeclaredCommands ==
    IF ideRun.ide.hasCommands THEN ideRun.ide.commands ELSE <<>>

\* C10: the allow list is the de-duplication, in order, of the existing
\* allow entries, the recipe's allow permissions, one mcp__<name> per
\* declared server and one SlashCommand(/<name>) per declared command; the
\* deny list likewise of the existing deny entries and the recipe's deny
\* permissions; the ask list is the existing one.
C10_AllowDenyAsk ==
    SettingsWritten =>
        /\ \E ord \in RangeOrders(Declared) :
              NewList("allow") =
                  Dedup(OldList("allow")
                        \o FormatTyped(ideRun.ide.permissions.allow)
                        \o [j \in 1..Len(ord) |-> "mcp__" \o ord[j]]
                        \o [j \in 1..Len(DeclaredCommands) |->
                              "SlashCommand(/" \o DeclaredCommands[j].name
                              \o ")"])
        /\ NewList("deny") =
              Dedup(OldList("deny") \o FormatTyped(ideRun.ide.permissions.deny))
        /\ NewList("ask") = OldList("ask")

\* existing lists meet declarations that repeat them
C10_Witness ==
    /\ SettingsWritten
    /\ OldSettings.kind = "object"
    /\ OldList("ask") # <<>>
    /\ Cardinality(Keys(Declared)) = 2
    /\ Len(DeclaredCommands) = 2
    /\ Len(ideRun.ide.permissions.allow) > 1
    /\ Len(NewList("allow")) >
          Len(OldList("allow"))
    /\ Len(NewList("allow")) <
          Len(OldList("allow")) + Len(ideRun.ide.permissions.allow) + 4
    /\ Len(NewList("deny")) = 2
    /\ Len(ideRun.ide.permissions.deny) = 3

(***************************************************************************)
(* Calls of Recipe.Materialize.                                            *)
(***************************************************************************)
RecipePrefetches ==
    { NilPrefetch,
      Prefetch(<<>>),
      Prefetch(<<PfCmd("f1")>>),
      Prefetch(<<PfCmd("f1"), PfCmd("f2")>>),
      Prefetch(<<PfCmd("f2"), PfCmd("f3")>>),
      Prefetch(<<PfCmd("f1"), NilPrefetchEntry>>),
      Prefetch(<<PfTypeless>>),
      Prefetch(<<PfCmd("f4"), PfCmd("f1")>>) }

RecipeContexts ==
    { NilContext,
      Context(<<>>),
      Context(<<CtxEntry("p5", PrefetchId("k1"), <<>>),
                CtxEntry("p2", Cmd("c1"), <<>>)>>),
      Context(<<CtxEntry("p6", Combined(<<Text("T1"), Cmd("c2"),
                                          PrefetchId("k2")>>), <<>>)>>),
      Context(<<CtxEntry("p2", Cmd("c1"), <<>>),
                CtxEntry("p4", NoFrom, <<>>),
                CtxEntry("p3", Cmd("c2"), <<>>)>>),
      Context(<<CtxEntry("p3", Cmd("c2"), <<"claude">>),
                CtxEntry("p1", Text("T1"), <<>>)>>),
      Context(<<CtxEntry("p8", LocalFile("l1"), <<>>),
                CtxEntry("p9", Github("h1"), <<>>),
                CtxEntry("r1", GitRepo("g1"), <<>>)>>) }

RecipeIdes ==
    { NilIde,
      Ide(TRUE, <<Command("refine", Cmd("i1"))>>,
          Permissions(<<Perm("bash", "ls")>>, <<>>),
          Mcp(Obj1("a", HttpServer("u1")))),
      Ide(TRUE, <<Command("run", Github("i2")), Command("", Text("T2"))>>,
          NilPermissions, NilMcp),
      Ide(FALSE, <<>>, NilPermissions,
          Mcp(Obj2("a", StdioServer(<<"run", "it">>, <<"-x">>),
                   "b", HttpServer("u2")))) }

Recipes ==
    {NilRecipe} \cup
    {Recipe(pf, c, ide) : pf \in RecipePrefetches, c \in RecipeContexts,
                          ide \in RecipeIdes}

RecipeGenCtxs ==
    { NilGenCtx,
      GenCtx(EmptyMap, EmptyMap, "claude", ""),
      GenCtx(Obj2("k1", "D1", "k9", "D9"), Ui1, "codex", "ws") }

\* every external operation a recipe of the universe can declare
RecipeOps ==
    {"f1", "f2", "f3", "f4", "c1", "c2", "l1", "h1", "g1", "i1", "i2"}

\* the operations that fail in a run; all of them fail when the caller's
\* context is cancelled before the call
RecipeFails == { {}, {"f4"}, {"c1"}, {"i1"}, {"h1"}, {"g1"}, RecipeOps }

\* lines 22-36 of Recipe.Materialize
DoPrefetch ==
    /\ recipeRun.pc = "start"
    /\ recipeRun' = StagePrefetch(recipeRun)
    /\ UNCHANGED <<fs, persist, ctxRun, ideRun, resolveRun, pfRun,
                   wsRun, fetchRun, execRun>>

\* lines 38-48 of Recipe.Materialize
DoContext ==
    /\ recipeRun.pc = "context"
    /\ recipeRun' = StageContext(recipeRun)
    /\ UNCHANGED <<fs, persist, ctxRun, ideRun, resolveRun, pfRun,
                   wsRun, fetchRun, execRun>>

\* lines 50-61 of Recipe.Materialize
DoIde ==
    /\ recipeRun.pc = "ide"
    /\ \E order \in RangeOrders(recipeRun.recipe.ide.mcp.servers) :
         recipeRun' = StageIde([recipeRun EXCEPT !.order = order])
    /\ UNCHANGED <<fs, persist, ctxRun, ideRun, resolveRun, pfRun,
                   wsRun, fetchRun, execRun>>

InitRecipe ==
    /\ wsRun = IdleWsRun
    /\ fetchRun = IdleFetchRun
    /\ execRun = IdleExecRun
    /\ resolveRun = IdleResolveRun
    /\ pfRun = IdlePfRun
    /\ fs = BaseFs
    /\ persist = IdlePersist
    /\ ctxRun = IdleCtxRun
    /\ ideRun = IdleIdeRun
    /\ \E r \in Recipes, g \in RecipeGenCtxs, fail \in RecipeFails,
          em \in {EmptyMcpDoc, InvalidMcpDoc} :
         recipeRun = [pc |-> "start", recipe |-> r, i |-> ClaudeIDE, g |-> g,
                      g0 |-> g, env |-> Env(fail), order |-> <<>>,
                      existingSettings |-> EmptySettingsDoc,
                      existingMcp |-> em, calls |-> <<>>, entries |-> <<>>,
                      out |-> NoOut]

NextRecipe == DoPrefetch \/ DoContext \/ DoIde

SpecRecipe == InitRecipe /\ [][NextRecipe]_vars

(***************************************************************************)
(* Claims about Recipe.Materialize.                                        *)
(***************************************************************************)
PrefetchOps == {"f1", "f2", "f3", "f4", "f5", "f6"}

IdeOps == {"i1", "i2"}

\* the stage an external call belongs to
StageOf(c) ==
    IF c.arg \in PrefetchOps THEN 1 ELSE IF c.arg \in IdeOps THEN 3 ELSE 2

RecipeCalls ==
    IF recipeRun.pc = "done" THEN recipeRun.out.calls ELSE recipeRun.calls

RecipeDone == recipeRun.pc = "done" /\ ~recipeRun.out.panic

RecipeOk == RecipeDone /\ recipeRun.out.err = NoErr

PfEntries == recipeRun.recipe.prefetch.entries

RECURSIVE AllFetched(_)
\* everything the prefetch entries deliver, in order
AllFetched(es) ==
    IF es = <<>> THEN <<>>
    ELSE ParsePrefetchResult(Output(Head(es).arg)).data \o AllFetched(Tail(es))

\* the prefetch stage has returned without an error
PrefetchPassed ==
    \/ recipeRun.pc \in {"context", "ide"}
    \/ RecipeOk
    \/ /\ RecipeDone /\ recipeRun.out.err # NoErr
       /\ recipeRun.out.err[1] # "failed to process prefetch"
       /\ recipeRun.out.err[1] # "recipe cannot be nil"

\* the context generator and the adapter on their own, with the
\* GenerationContext as the prefetch stage left it
ContextAlone ==
    ContextMaterialize(recipeRun.recipe.context, recipeRun.g, recipeRun.env,
                       <<>>)

IdeAlone ==
    IdeMaterialize(recipeRun.i, recipeRun.recipe.ide, recipeRun.order,
                   recipeRun.existingSettings, recipeRun.existingMcp,
                   recipeRun.env, <<>>)

\* C4: Recipe.Materialize runs prefetch, then context, then IDE.  Once the
\* prefetch stage is over every prefetch entry has run and its values are in
\* the GenerationContext, before any context entry is resolved; the result
\* is the context records followed by the IDE records; a stage that fails
\* ends the call with an error and a nil result, no later stage having run.
C4_StageOrder ==
    /\ \A a, b \in 1..Len(RecipeCalls) :
          a < b => StageOf(RecipeCalls[a]) <= StageOf(RecipeCalls[b])
    /\ (PrefetchPassed /\ ~recipeRun.recipe.prefetch.isNil) =>
          LET all == AllFetched(PfEntries) IN
          /\ Len(RecipeCalls) >= Len(PfEntries)
          /\ \A j \in 1..Len(PfEntries) :
                RecipeCalls[j] = Call("cmd", PfEntries[j].arg)
          /\ recipeRun.pc = "context" => Len(RecipeCalls) = Len(PfEntries)
          /\ \A j \in 1..Len(all) :
                /\ all[j].id \in Keys(recipeRun.g.Prefetched)
                /\ (\A l \in (j + 1)..Len(all) : all[l].id # all[j].id)
                      => recipeRun.g.Prefetched[all[j].id] = all[j].data
          /\ \A k \in Keys(recipeRun.g0.Prefetched) :
                (\A j \in 1..Len(all) : all[j].id # k)
                   => /\ k \in Keys(recipeRun.g.Prefetched)
                      /\ recipeRun.g.Prefetched[k] = recipeRun.g0.Prefetched[k]
    /\ RecipeOk =>
          /\ ~recipeRun.recipe.isNil
          /\ Process(recipeRun.recipe.prefetch, recipeRun.env, <<>>).err = NoErr
          /\ ~recipeRun.recipe.context.isNil => ContextAlone.err = NoErr
          /\ ~recipeRun.recipe.ide.isNil => IdeAlone.err = NoErr
          /\ recipeRun.out.result =
                Result((IF recipeRun.recipe.context.isNil THEN <<>>
                        ELSE ContextAlone.result.entries)
                       \o (IF recipeRun.recipe.ide.isNil THEN <<>>
                           ELSE IdeAlone.result.entries))
    /\ (RecipeDone /\ recipeRun.out.err # NoErr) =>
          /\ recipeRun.out.result = NilResult
          /\ recipeRun.out.err[1] \in
                {"recipe cannot be nil", "failed to process prefetch",
                 "failed to materialize context",
                 "failed to materialize IDE configuration"}
          /\ recipeRun.out.err[1] \in
                {"recipe cannot be nil", "failed to process prefetch"} =>
                \A a \in 1..Len(RecipeCalls) : StageOf(RecipeCalls[a]) = 1
          /\ recipeRun.out.err[1] = "failed to materialize context" =>
                \A a \in 1..Len(RecipeCalls) : StageOf(RecipeCalls[a]) <= 2

\* the three stages ran, a context record holds a prefetched value that
\* the second prefetch entry wrote, and IDE records follow context records
C4_Witness ==
    /\ RecipeOk
    /\ Len(PfEntries) = 2
    /\ \E a, b, c \in 1..Len(RecipeCalls) :
          /\ StageOf(RecipeCalls[a]) = 1
          /\ StageOf(RecipeCalls[b]) = 2
          /\ StageOf(RecipeCalls[c]) = 3
    /\ Len(recipeRun.out.result.entries) > 2
    /\ recipeRun.out.result.entries[1] = FileRec("p5", "F1b")
    /\ Get(recipeRun.g0.Prefetched, "k1", "") = "D1"

(***************************************************************************)
(* Claims about a second call of the adapter.                              *)
(***************************************************************************)
IdeAgain == ideRun.pc = "done2"

Entries2 == ideRun.out2.result.entries

FileOf(entries, path) ==
    entries[CHOOSE j \in 1..Len(entries) : entries[j].path = path].content

HasFile(entries, path) == \E j \in 1..Len(entries) : entries[j].path = path

\* C11: the merge is idempotent: a second call with the same IDE
\* configuration against the settings and MCP files of the first call
\* succeeds and returns the same settings and MCP file contents.
C11_MergeIdempotent ==
    IdeAgain =>
        /\ ideRun.out2.err = NoErr
        /\ \A path \in {SettingsPath, ideRun.i.MCPServersJSONPath} :
              /\ HasFile(Entries2, path) <=> HasFile(ideRun.out.result.entries, path)
              /\ HasFile(Entries2, path) =>
                    FileOf(Entries2, path) =
                        FileOf(ideRun.out.result.entries, path)

\* both files existed before the first call, two servers are declared and
\* the second call ranges over them in another order
C11_Witness ==
    /\ IdeAgain
    /\ HasFile(Entries2, SettingsPath)
    /\ HasFile(Entries2, ".mcp.json")
    /\ ideRun.existingSettings.kind = "object"
    /\ Keys(ideRun.existingMcp.servers) # {}
    /\ Keys(ideRun.existingMcp.extra) # {}
    /\ Len(ideRun.order) = 2
    /\ ideRun.order2 # ideRun.order
    /\ ~ideRun.ide.permissions.isNil
    /\ ideRun.ide.hasCommands /\ ideRun.ide.commands # <<>>

(***************************************************************************)
(* Calls of Processor.Process.                                             *)
(***************************************************************************)
PfEntryKinds ==
    { PfCmd("f1"), PfCmd("f2"), PfCmd("f3"), PfCmd("f4"), PfCmd("f5"),
      PfCmd("f6"), NilPrefetchEntry, PfTypeless }

\* Processor.Process
CallProcess ==
    /\ pfRun.pc = "start"
    /\ pfRun' = [pfRun EXCEPT
                   !.pc = "done",
                   !.out = Process(pfRun.prefetch, pfRun.env, <<>>)]
    /\ UNCHANGED <<fs, persist, ctxRun, ideRun, recipeRun, resolveRun,
                   wsRun, fetchRun, execRun>>

InitPrefetch ==
    /\ wsRun = IdleWsRun
    /\ fetchRun = IdleFetchRun
    /\ execRun = IdleExecRun
    /\ fs = BaseFs
    /\ persist = IdlePersist
    /\ ctxRun = IdleCtxRun
    /\ ideRun = IdleIdeRun
    /\ recipeRun = IdleRecipeRun
    /\ resolveRun = IdleResolveRun
    /\ \E es \in SeqsUpTo(PfEntryKinds, MaxPrefetch),
          fail \in {{}, {"f4"}, {"f1"}} :
         pfRun = [pc |-> "start", prefetch |-> Prefetch(es),
                  env |-> Env(fail), out |-> Ret(EmptyMap, NoErr, <<>>)]

NextPrefetch == CallProcess

SpecPrefetch == InitPrefetch /\ [][NextPrefetch]_vars

(***************************************************************************)
(* Claims about prefetch.                                                  *)
(***************************************************************************)
PfDone == pfRun.pc = "done"

PfEs == pfRun.prefetch.entries

\* every (id, data) pair, in output order within an entry and in entry
\* order across the entries
PfPairs == AllFetched(PfEs)

\* C16: Process runs the entries' commands one at a time in list order and,
\* on success, maps every id to the data of the last pair carrying it,
\* pairs taken in output order within an entry and in entry order across
\* entries; an entry without data items adds nothing.
C16_LastWriteWins ==
    (PfDone /\ pfRun.out.err = NoErr) =>
        /\ pfRun.out.calls = [j \in 1..Len(PfEs) |-> Call("cmd", PfEs[j].arg)]
        /\ DOMAIN pfRun.out.val = {PfPairs[j].id : j \in 1..Len(PfPairs)}
        /\ \A j \in 1..Len(PfPairs) :
              (\A l \in (j + 1)..Len(PfPairs) : PfPairs[l].id # PfPairs[j].id)
                 => pfRun.out.val[PfPairs[j].id] = PfPairs[j].data

\* an id written by two entries, an id written twice by one entry, and an
\* entry without data
C16_Witness ==
    /\ PfDone /\ pfRun.out.err = NoErr
    /\ PfEs = <<PfCmd("f2"), PfCmd("f5"), PfCmd("f6")>>
       \/ PfEs = <<PfCmd("f1"), PfCmd("f2"), PfCmd("f5")>>
    /\ Len(PfPairs) > Cardinality(DOMAIN pfRun.out.val)

\* the prefetch entry j cannot be processed in this run
BadPf(es, env, j) ==
    \/ es[j].kind \in {"nil", "typeless"}
    \/ es[j].arg \in env.fail
    \/ ~ParsePrefetchResult(Output(es[j].arg)).ok

RECURSIVE CmdCalls(_, _)
\* the commands of the entries 1..k
CmdCalls(es, k) ==
    IF k = 0 THEN <<>>
    ELSE CmdCalls(es, k - 1)
         \o (IF es[k].kind = "cmd" THEN <<Call("cmd", es[k].arg)>> ELSE <<>>)

\* C17: when a prefetch entry is nil, has no type, or its command fails or
\* prints no valid result document, Process returns an error and no map
\* without executing the entries after it, and Recipe.Materialize fails
\* leaving the prefetch cache of the GenerationContext as it was.
C17_PrefetchFailure ==
    LET es == PfEntries
        env == recipeRun.env
        bad == {j \in 1..Len(es) : BadPf(es, env, j)}
    IN
    (recipeRun.pc # "start" /\ ~recipeRun.recipe.isNil /\ bad # {}) =>
        LET fb == CHOOSE j \in bad : \A l \in bad : j <= l
            r == Process(recipeRun.recipe.prefetch, env, <<>>)
        IN
        /\ r.err # NoErr
        /\ DOMAIN r.val = {}
        /\ r.calls = CmdCalls(es, fb)
        /\ recipeRun.pc = "done" /\ ~recipeRun.out.panic
        /\ recipeRun.out.result = NilResult
        /\ recipeRun.out.err = <<"failed to process prefetch">> \o r.err
        /\ recipeRun.out.calls = r.calls
        /\ recipeRun.g = recipeRun.g0

\* the first entry delivered pairs, one of them for a key of the cache, and
\* the second printed no valid document
C17_Witness ==
    /\ recipeRun.pc = "done"
    /\ PfEntries = <<PfCmd("f2"), PfCmd("f3")>>
    /\ Get(recipeRun.g0.Prefetched, "k1", "") = "D1"
    /\ recipeRun.g = recipeRun.g0
    /\ recipeRun.out.err # NoErr

(***************************************************************************)
(* Claims about command rendering.                                         *)
(***************************************************************************)
\* the declared command j has no name or no 'from' source
InvalidCommand(j) ==
    DeclaredCommands[j].name = "" \/ DeclaredCommands[j].from.kind = "none"

\* the content of the declared command j cannot be fetched
FetchFails(j) ==
    fetchCommandContent(DeclaredCommands[j].from, ideRun.env, <<>>).err # NoErr

\* the declared commands at which the loop of materializeCommands stops
Stopping ==
    {j \in 1..Len(DeclaredCommands) : InvalidCommand(j) \/ FetchFails(j)}

FirstStopping == CHOOSE j \in Stopping : \A l \in Stopping : j <= l

\* the error names the command c
NamesCommand(err, c) == \E k \in 1..Len(err) : err[k] = c.name

\* on success the first entries are the files of the declared commands, in
\* declaration order
CommandFiles ==
    IdeOk =>
        /\ Stopping = {}
        /\ Len(IdeEntries) >= Len(DeclaredCommands)
        /\ \A j \in 1..Len(DeclaredCommands) :
              IdeEntries[j] =
                 FileRec(ideRun.i.CommandsFolder \o "/"
                            \o DeclaredCommands[j].name \o ".md",
                         fetchCommandContent(DeclaredCommands[j].from,
                                             ideRun.env, <<>>).val)

\* C20 as stated: one File entry per declared command at
\* <CommandsFolder>/<name>.md in declaration order; when a declared command
\* has an empty name or no 'from' source, Materialize fails with an error
\* naming that command and returns no entries.
C20_InvalidCommandNamed ==
    (IdeDone /\ ~ideRun.ide.isNil) =>
        /\ CommandFiles
        /\ \A j \in 1..Len(DeclaredCommands) :
              InvalidCommand(j) =>
                 /\ ideRun.out.err # NoErr
                 /\ ideRun.out.result = NilResult
                 /\ NamesCommand(ideRun.out.err, DeclaredCommands[j])

\* C20: one File entry per declared command at <CommandsFolder>/<name>.md in
\* declaration order; when a declared command has an empty name or no 'from'
\* source, Materialize fails and returns no entries, with the error of the
\* first command in declaration order that cannot be rendered: "command name
\* cannot be empty", which names no command, for an empty name, and an error
\* naming the command for a missing 'from' source or a failed fetch.
C20_FirstInvalidCommandFails ==
    (IdeDone /\ ~ideRun.ide.isNil) =>
        /\ CommandFiles
        /\ (\E j \in 1..Len(DeclaredCommands) : InvalidCommand(j)) =>
              LET c == DeclaredCommands[FirstStopping] IN
              /\ ideRun.out.err # NoErr
              /\ ideRun.out.result = NilResult
              /\ ~ideRun.out.panic
              /\ IF c.name = ""
                 THEN ideRun.out.err = <<"command name cannot be empty">>
                 ELSE IF c.from.kind = "none"
                 THEN ideRun.out.err =
                         <<"command must have a 'from' source", c.name>>
                 ELSE /\ NamesCommand(ideRun.out.err, c)
                      /\ ideRun.out.err[1] = "failed to materialize command"

\* a command without source declared after a command that was fetched
C20_Witness ==
    /\ IdeDone
    /\ Len(DeclaredCommands) = 2
    /\ DeclaredCommands[2].from.kind = "none"
    /\ ideRun.out.calls = <<Call("cmd", "i1")>>
    /\ ideRun.out.err = <<"command must have a 'from' source", "plan">>
    /\ ideRun.out.result = NilResult

(***************************************************************************)
(* Claims about the determinism and the form of the adapter's output.      *)
(***************************************************************************)
\* C28: for a fixed IDE configuration and fixed existing files the output of
\* the adapter is uniquely determined: whatever order the range over the
\* declared servers takes, the entries, their order and the contents of the
\* settings and MCP files are the same.
C28_OutputDetermined ==
    IdeDone =>
        \A order \in RangeOrders(ideRun.ide.mcp.servers) :
            IdeMaterialize(ideRun.i, ideRun.ide, order,
                           ideRun.existingSettings, ideRun.existingMcp,
                           ideRun.env, <<>>) = ideRun.out

\* the strings of the list k of the new settings that the run added
AddedTo(k) ==
    {NewList(k)[j] : j \in 1..Len(NewList(k))}
        \ {OldList(k)[j] : j \in 1..Len(OldList(k))}

\* the permissions the recipe declares in its list k
DeclaredPerms(k) ==
    IF ideRun.ide.permissions.isNil THEN {}
    ELSE {ideRun.ide.permissions[k][j] :
             j \in 1..Len(ideRun.ide.permissions[k])}

\* the strings of the forms Bash(<pattern>), Read(<pattern>),
\* Write(<pattern>), mcp__<serverName> and SlashCommand(/<name>)
WellFormed(k) ==
    {"Bash(" \o p.pattern \o ")" : p \in DeclaredPerms(k)}
    \cup {"Read(" \o p.pattern \o ")" : p \in DeclaredPerms(k)}
    \cup {"Write(" \o p.pattern \o ")" : p \in DeclaredPerms(k)}
    \cup {"mcp__" \o n : n \in Keys(ideRun.ide.mcp.servers)}
    \cup {"SlashCommand(/" \o DeclaredCommands[j].name \o ")" :
             j \in 1..Len(DeclaredCommands)}

\* C30: every string a run adds to the allow or the deny list of the
\* settings is non-empty and of one of the forms Bash(<pattern>),
\* Read(<pattern>), Write(<pattern>), mcp__<serverName>,
\* SlashCommand(/<name>), for every permission variant of the recipe.
C30_AddedStringsWellFormed ==
    SettingsWritten =>
        \A k \in {"allow", "deny"} :
            \A str \in AddedTo(k) : str # "" /\ str \in WellFormed(k)

(***************************************************************************)
(* Claims about a nil GenerationContext.                                   *)
(***************************************************************************)
\* C29: Context.Materialize called with a nil GenerationContext returns, for
\* every context, a result or an error (it does not crash), namely what it
\* returns for a GenerationContext with an empty prefetch cache, an empty
\* user-input map and no active tool.
C29_NilGenCtxCompletes ==
    (ctxRun.pc = "done" /\ ctxRun.g.isNil) =>
        /\ ~ctxRun.out.panic
        /\ ctxRun.out = ContextMaterialize(ctxRun.contextMsg,
                                           GenCtx(EmptyMap, EmptyMap, "", ""),
                                           ctxRun.env, <<>>)

(***************************************************************************)
(* Claims about retries.                                                   *)
(***************************************************************************)
\* the external call a source declares, if any
SrcCall(src) ==
    CASE src.kind = "cmd" -> <<Call("cmd", src.arg)>>
      [] src.kind = "github" -> <<Call("github", src.arg)>>
      [] src.kind = "localFile" /\ src.arg # "" -> <<Call("read", src.arg)>>
      [] OTHER -> <<>>

RECURSIVE SrcCalls(_)
SrcCalls(items) ==
    IF items = <<>> THEN <<>>
    ELSE SrcCall(Head(items)) \o SrcCalls(Tail(items))

\* the directory a GitRepository entry is cloned into
DestOf(e, g) ==
    IF ~g.isNil /\ g.WorkspacePath # "" THEN JoinStr(g.WorkspacePath, e.path)
    ELSE e.path

\* the external calls a context entry declares
DeclaredEntryCalls(e, g) ==
    CASE e.from.kind = "gitRepo" -> <<Call("clone", DestOf(e, g))>>
      [] e.from.kind = "combined" -> SrcCalls(e.from.items)
      [] OTHER -> SrcCall(e.from)

RECURSIVE ContextCalls(_, _)
ContextCalls(es, g) ==
    IF es = <<>> THEN <<>>
    ELSE DeclaredEntryCalls(Head(es), g) \o ContextCalls(Tail(es), g)

RECURSIVE PrefetchCalls(_)
PrefetchCalls(es) ==
    IF es = <<>> THEN <<>>
    ELSE (IF Head(es).kind = "cmd" THEN <<Call("cmd", Head(es).arg)>>
          ELSE <<>>) \o PrefetchCalls(Tail(es))

RECURSIVE CommandCalls(_)
CommandCalls(cmds) ==
    IF cmds = <<>> THEN <<>>
    ELSE SrcCall(Head(cmds).from) \o CommandCalls(Tail(cmds))

\* the external operations the recipe of the run declares, in document order
DeclaredCalls ==
    LET r == recipeRun.recipe IN
    IF r.isNil THEN <<>>
    ELSE PrefetchCalls(r.prefetch.entries)
         \o ContextCalls(r.context.entries, recipeRun.g0)
         \o (IF r.ide.hasCommands THEN CommandCalls(r.ide.commands) ELSE <<>>)

RECURSIVE IsSubSeq(_, _)
\* s is t with some elements left out
IsSubSeq(s, t) ==
    IF s = <<>> THEN TRUE
    ELSE IF t = <<>> THEN FALSE
    ELSE IF Head(s) = Head(t) THEN IsSubSeq(Tail(s), Tail(t))
    ELSE IsSubSeq(s, Tail(t))

\* the operation behind the call c fails in this run
FailedCall(c) ==
    IF c.kind = "clone"
    THEN \E j \in 1..Len(recipeRun.recipe.context.entries) :
            LET e == recipeRun.recipe.context.entries[j] IN
            /\ e.from.kind = "gitRepo"
            /\ DestOf(e, recipeRun.g0) = c.arg
            /\ e.from.arg \in recipeRun.env.fail
    ELSE c.arg \in recipeRun.env.fail

\* C21: within one call of Recipe.Materialize every declared external
\* operation is invoked at most once, in document order, and an operation
\* that fails (also because the caller's context is cancelled) is the last
\* one invoked: the call ends with an error.
C21_NoRetry ==
    /\ IsSubSeq(RecipeCalls, DeclaredCalls)
    /\ \A j \in 1..Len(RecipeCalls) :
          FailedCall(RecipeCalls[j]) =>
             /\ j = Len(RecipeCalls)
             /\ recipeRun.pc = "done"
             /\ recipeRun.out.err # NoErr
             /\ recipeRun.out.result = NilResult

\* a clone that failed after a file read and a fetch that delivered, and a
\* cancelled run that stopped at its first operation
C21_Witness ==
    /\ recipeRun.pc = "done"
    /\ recipeRun.out.err # NoErr
    /\ Len(RecipeCalls) = 3
    /\ RecipeCalls[3].kind = "clone"
    /\ FailedCall(RecipeCalls[3])
    /\ Len(DeclaredCalls) > 3

C21_WitnessCancelled ==
    /\ recipeRun.pc = "done"
    /\ recipeRun.env.fail = RecipeOps
    /\ Len(RecipeCalls) = 1
    /\ Len(DeclaredCalls) >= 3
    /\ recipeRun.out.err # NoErr

(***************************************************************************)
(* The workspace resolver (core/providers, Workspace.Materialize).         *)
(***************************************************************************)
\* recipes.WorkspaceConfig; len is the length of the unique slug
NilWs ==
    [isNil |-> TRUE, enabled |-> FALSE, path |-> Path(FALSE, <<>>),
     absolute |-> FALSE, hasUnique |-> FALSE, len |-> 0]

Ws(enabled, path, absolute, hasUnique, len) ==
    [isNil |-> FALSE, enabled |-> enabled, path |-> path,
     absolute |-> absolute, hasUnique |-> hasUnique, len |-> len]

HexDigits ==
    <<"0", "1", "2", "3", "4", "5", "6", "7", "8", "9", "a", "b", "c", "d",
      "e", "f">>

RECURSIVE EncodeToString(_)
\* hex.EncodeToString: two lowercase digits per byte
EncodeToString(bytes) ==
    IF bytes = <<>> THEN <<>>
    ELSE <<HexDigits[(Head(bytes) \div 16) + 1],
           HexDigits[(Head(bytes) % 16) + 1]>>
         \o EncodeToString(Tail(bytes))

RECURSIVE Concat(_)
\* the string made of the characters
Concat(chars) ==
    IF chars = <<>> THEN "" ELSE Head(chars) \o Concat(Tail(chars))

\* the number of bytes generateRandomSlug reads
SlugBytes(length) == (length + 1) \div 2

\* generateRandomSlug keeping every digit of the bytes it read
generateRandomSlugNoTrim(length, rnd) ==
    IF ~rnd.ok THEN Ret(<<>>, <<"rand.Read failed">>, <<>>)
    ELSE Ret(EncodeToString(rnd.bytes), NoErr, <<>>)

\* generateRandomSlug; rnd is what crypto/rand delivers
generateRandomSlug(length, rnd) ==
    IF ~rnd.ok THEN Ret(<<>>, <<"rand.Read failed">>, <<>>)
    ELSE LET slug == EncodeToString(rnd.bytes) IN
         IF Len(slug) > length
         THEN Ret(SubSeq(slug, 1, length), NoErr, <<>>)
         ELSE Ret(slug, NoErr, <<>>)

\* lines 38-41: the length of the slug
SlugLen(ws) == IF ws.len <= 0 THEN 8 ELSE ws.len

\* the result of Workspace.Materialize: a path (empty for "") and an error
WsOut(path, err) == [path |-> path, err |-> err]

\* Workspace.Materialize appending the unique component in every case
WorkspaceMaterializeAlwaysUnique(ws, home, now, rnd) ==
    IF ws.isNil \/ ~ws.enabled THEN WsOut(Path(FALSE, <<>>), NoErr)
    ELSE IF ~ws.absolute /\ ~home.ok
    THEN WsOut(Path(FALSE, <<>>), <<"failed to get home directory">>)
    ELSE LET workspacePath == IF ws.absolute THEN ws.path
                              ELSE Join(home.dir, ws.path)
             slug == generateRandomSlug(SlugLen(ws), rnd)
         IN
         IF slug.err # NoErr
         THEN WsOut(Path(FALSE, <<>>),
                    Wrap(<<"failed to generate slug">>, slug.err))
         ELSE WsOut(Join(workspacePath,
                         Path(FALSE,
                              <<now \o "_" \o Concat(slug.val)>>)),
                    NoErr)

\* Workspace.Materialize; home is what os.UserHomeDir returns, now the day
\* time.Now falls on
WorkspaceMaterialize(ws, home, now, rnd) ==
    IF ws.isNil \/ ~ws.enabled THEN WsOut(Path(FALSE, <<>>), NoErr)
    ELSE IF ~ws.absolute /\ ~home.ok
    THEN WsOut(Path(FALSE, <<>>), <<"failed to get home directory">>)
    ELSE LET workspacePath == IF ws.absolute THEN ws.path
                              ELSE Join(home.dir, ws.path)
         IN
         IF ~ws.hasUnique THEN WsOut(workspacePath, NoErr)
         ELSE LET slug == generateRandomSlug(SlugLen(ws), rnd) IN
              IF slug.err # NoErr
              THEN WsOut(Path(FALSE, <<>>),
                         Wrap(<<"failed to generate slug">>, slug.err))
              ELSE WsOut(Join(workspacePath,
                              Path(FALSE,
                                   <<now \o "_" \o Concat(slug.val)>>)),
                         NoErr)

WsPaths ==
    { Path(FALSE, <<"w">>),
      Path(TRUE, <<"opt", "w">>),
      Path(FALSE, <<"a", "..", "w">>) }

WsConfigs ==
    {NilWs}
    \cup {Ws(e, p, a, FALSE, 0) : e \in BOOLEAN, p \in WsPaths, a \in BOOLEAN}
    \cup {Ws(TRUE, p, a, TRUE, l) :
             p \in WsPaths, a \in BOOLEAN, l \in (0 - 1)..MaxSlugLen}

Homes ==
    { [ok |-> TRUE, dir |-> Path(TRUE, <<"home", "u">>)],
      [ok |-> FALSE, dir |-> Path(FALSE, <<>>)] }

Days == {"20261101", "20270101"}

ByteValues == {10, 188}

\* what crypto/rand delivers to a call for ws: the bytes asked for, or an
\* error
Rands(ws) ==
    LET n == IF ws.hasUnique THEN SlugBytes(SlugLen(ws)) ELSE 0 IN
    {[ok |-> TRUE, bytes |-> b] :
         b \in {x \in SeqsUpTo(ByteValues, n) : Len(x) = n}}
    \cup (IF ws.hasUnique THEN {[ok |-> FALSE, bytes |-> <<>>]} ELSE {})

NoRnd == [ok |-> TRUE, bytes |-> <<>>]

\* Workspace.Materialize
CallWorkspaceMaterialize ==
    /\ wsRun.pc = "start"
    /\ \E now \in Days, rnd \in Rands(wsRun.ws) :
         wsRun' = [wsRun EXCEPT
                     !.pc = "done", !.now = now, !.rnd = rnd,
                     !.out = WorkspaceMaterialize(wsRun.ws, wsRun.home, now,
                                                  rnd)]
    /\ UNCHANGED <<fs, persist, ctxRun, ideRun, recipeRun, resolveRun, pfRun,
                   fetchRun, execRun>>

\* Workspace.Materialize called again with the same configuration
CallWorkspaceMaterializeAgain ==
    /\ wsRun.pc = "done"
    /\ \E now \in Days, rnd \in Rands(wsRun.ws) :
         wsRun' = [wsRun EXCEPT
                     !.pc = "done2",
                     !.out2 = WorkspaceMaterialize(wsRun.ws, wsRun.home, now,
                                                   rnd)]
    /\ UNCHANGED <<fs, persist, ctxRun, ideRun, recipeRun, resolveRun, pfRun,
                   fetchRun, execRun>>

InitWorkspace ==
    /\ persist = IdlePersist
    /\ ctxRun = IdleCtxRun
    /\ ideRun = IdleIdeRun
    /\ recipeRun = IdleRecipeRun
    /\ resolveRun = IdleResolveRun
    /\ pfRun = IdlePfRun
    /\ fetchRun = IdleFetchRun
    /\ execRun = IdleExecRun
    /\ fs \in InitialFs
    /\ \E ws \in WsConfigs, home \in Homes :
         wsRun = [pc |-> "start", ws |-> ws, home |-> home, fs0 |-> fs,
                  now |-> "", rnd |-> NoRnd,
                  out |-> WsOut(Path(FALSE, <<>>), NoErr),
                  out2 |-> WsOut(Path(FALSE, <<>>), NoErr)]

NextWorkspace == CallWorkspaceMaterialize \/ CallWorkspaceMaterializeAgain

SpecWorkspace == InitWorkspace /\ [][NextWorkspace]_vars

(***************************************************************************)
(* Claims about the workspace resolver.                                    *)
(***************************************************************************)
WsDone == wsRun.pc \in {"done", "done2"}

\* the path without the unique component
WsBase ==
    IF wsRun.ws.absolute THEN wsRun.ws.path
    ELSE Join(wsRun.home.dir, wsRun.ws.path)

C23_UniqueSlug ==
    (wsRun.pc = "done" /\ wsRun.ws.hasUnique /\ wsRun.out.err = NoErr) =>
        LET n == IF wsRun.ws.len >= 1 THEN wsRun.ws.len ELSE 8
            hex == EncodeToString(wsRun.rnd.bytes)
            base == Clean(WsBase)
        IN
        /\ Len(hex) >= n
        /\ \A j \in 1..n : \E d \in 1..16 : hex[j] = HexDigits[d]
        /\ wsRun.out.path =
              Path(base.abs,
                   Append(base.segs,
                          wsRun.now \o "_" \o Concat(SubSeq(hex, 1, n))))
        /\ Len(wsRun.out.path.segs[Len(wsRun.out.path.segs)]) = 8 + 1 + n

\* an odd length
C23_Witness ==
    /\ wsRun.pc = "done" /\ wsRun.ws.hasUnique /\ wsRun.out.err = NoErr
    /\ wsRun.ws.len = 3
    /\ wsRun.out.path = Path(TRUE, <<"home", "u", "w", "20261101_0ab">>)

\* the default length
C23_WitnessDefault ==
    /\ wsRun.pc = "done" /\ wsRun.ws.hasUnique /\ wsRun.out.err = NoErr
    /\ wsRun.ws.len = 0
    /\ wsRun.out.path = Path(TRUE, <<"opt", "w", "20270101_bc0a0abc">>)

(***************************************************************************)
(* The recipe fetcher (core/fetcher, GitHub.FetchRecipe).                  *)
(*   A recipe id is given by its parts between the slashes, white space    *)
(*   trimmed.  A document is described by what the parsers make of it.     *)
(***************************************************************************)
\* buildGitHubBaseRecipeURL
buildGitHubBaseRecipeURL(parts) ==
    IF parts = <<"">> THEN Ret("", <<"recipe id cannot be empty">>, <<>>)
    ELSE IF Len(parts) = 1
    THEN Ret("https://github.com/opensdd/recipes/global/" \o parts[1]
                \o "/recipe", NoErr, <<>>)
    ELSE IF Len(parts) = 3
    THEN IF parts[1] = "" \/ parts[2] = "" \/ parts[3] = ""
         THEN Ret("", <<"invalid recipe id">>, <<>>)
         ELSE Ret("https://github.com/" \o parts[1] \o "/" \o parts[2]
                     \o "/opensdd_recipes/" \o parts[3] \o "/recipe",
                  NoErr, <<>>)
    ELSE Ret("", <<"invalid recipe id format">>, <<>>)

\* a document: whether yaml.Unmarshal and protojson accept it, whether it
\* has a field ExecutableRecipe does not know, and the recipe it holds
Doc(yamlOk, jsonOk, unknown, recipe) ==
    [empty |-> FALSE, yamlOk |-> yamlOk, jsonOk |-> jsonOk,
     unknown |-> unknown, recipe |-> recipe]

\* the empty content ""
EmptyContent ==
    [empty |-> TRUE, yamlOk |-> FALSE, jsonOk |-> FALSE, unknown |-> FALSE,
     recipe |-> ""]

YamlDoc == Doc(TRUE, FALSE, FALSE, "R1")        \* YAML that is not JSON
JsonDoc == Doc(TRUE, TRUE, FALSE, "R2")         \* JSON, which is YAML too
JsonDocUnknown == Doc(TRUE, TRUE, TRUE, "R3")
Garbage == Doc(FALSE, FALSE, FALSE, "")

\* what a URL answers: an error, or a content
NoAnswer == [ok |-> FALSE, content |-> EmptyContent]
Answer(content) == [ok |-> TRUE, content |-> content]

\* fetchByURL; web maps the URLs to what they answer
fetchByURL(url, web, calls) ==
    IF ~web[url].ok
    THEN Ret(EmptyContent, <<"failed to fetch", url>>,
             Append(calls, Call("github", url)))
    ELSE Ret(web[url].content, NoErr, Append(calls, Call("github", url)))

\* the result of the loop over the candidates
Fetched(content, usedYAML, lastErr, calls) ==
    [content |-> content, usedYAML |-> usedYAML, lastErr |-> lastErr,
     calls |-> calls]

RECURSIVE fetchCandidatesFrom(_, _, _, _, _)
\* lines 81-89: the loop over the candidates from candidate j on
fetchCandidatesFrom(candidates, j, lastErr, web, calls) ==
    IF j > Len(candidates) THEN Fetched(EmptyContent, FALSE, lastErr, calls)
    ELSE LET r == fetchByURL(candidates[j].url, web, calls) IN
         IF r.err = NoErr /\ ~r.val.empty
         THEN Fetched(r.val, candidates[j].yaml, lastErr, r.calls)
         ELSE fetchCandidatesFrom(candidates, j + 1,
                                  IF r.err # NoErr THEN r.err ELSE lastErr,
                                  web, r.calls)

\* the candidates with the JSON one first
CandidatesJsonFirst(baseURL) ==
    << [url |-> baseURL \o ".json", yaml |-> FALSE],
       [url |-> baseURL \o ".yaml", yaml |-> TRUE] >>

\* lines 66-72: the candidates
Candidates(baseURL) ==
    << [url |-> baseURL \o ".yaml", yaml |-> TRUE],
       [url |-> baseURL \o ".json", yaml |-> FALSE] >>

\* the result of FetchRecipe: the recipe (nil when hasRecipe is FALSE), the
\* error and the requests made
FetchOut(hasRecipe, recipe, err, calls) ==
    [hasRecipe |-> hasRecipe, recipe |-> recipe, err |-> err, calls |-> calls]

\* lines 98-115: parsing; the recipe object is returned with the error
parseRecipe(content, usedYAML, strict, calls) ==
    IF usedYAML /\ ~content.yamlOk
    THEN FetchOut(FALSE, "", <<"failed to parse YAML recipe">>, calls)
    ELSE IF ~usedYAML /\ ~content.jsonOk
    THEN FetchOut(TRUE, "", <<"protojson: syntax error">>, calls)
    ELSE IF strict /\ content.unknown
    THEN FetchOut(TRUE, "", <<"protojson: unknown field">>, calls)
    ELSE FetchOut(TRUE, content.recipe, NoErr, calls)

\* GitHub.FetchRecipe
FetchRecipe(parts, strict, web) ==
    LET b == buildGitHubBaseRecipeURL(parts) IN
    IF b.err # NoErr THEN FetchOut(FALSE, "", b.err, <<>>)
    ELSE LET f == fetchCandidatesFrom(Candidates(b.val), 1, NoErr, web, <<>>)
         IN
         IF f.content.empty
         THEN FetchOut(FALSE, "",
                       Wrap(<<"failed to fetch recipe from GitHub">>,
                            IF f.lastErr # NoErr THEN f.lastErr
                            ELSE <<"unknown error">>),
                       f.calls)
         ELSE parseRecipe(f.content, f.usedYAML, strict, f.calls)

RecipeIds == { <<"">>, <<"n">>, <<"o", "r", "n">>, <<"o", "", "n">>,
               <<"a", "b">> }

Answers ==
    {NoAnswer, Answer(EmptyContent), Answer(YamlDoc), Answer(JsonDoc),
     Answer(JsonDocUnknown), Answer(Garbage)}

\* the web answering the two candidates of a recipe id
WebOf(parts, y, j) ==
    LET b == buildGitHubBaseRecipeURL(parts).val IN
    [u \in {b \o ".yaml", b \o ".json"} |->
        IF u = b \o ".yaml" THEN y ELSE j]

\* GitHub.FetchRecipe
CallFetchRecipe ==
    /\ fetchRun.pc = "start"
    /\ fetchRun' = [fetchRun EXCEPT
                      !.pc = "done",
                      !.out = FetchRecipe(fetchRun.id, fetchRun.strict,
                                          WebOf(fetchRun.id, fetchRun.yaml,
                                                fetchRun.json))]
    /\ UNCHANGED <<fs, persist, ctxRun, ideRun, recipeRun, resolveRun, pfRun,
                   wsRun, execRun>>

InitFetch ==
    /\ fs = BaseFs
    /\ persist = IdlePersist
    /\ ctxRun = IdleCtxRun
    /\ ideRun = IdleIdeRun
    /\ recipeRun = IdleRecipeRun
    /\ resolveRun = IdleResolveRun
    /\ pfRun = IdlePfRun
    /\ wsRun = IdleWsRun
    /\ execRun = IdleExecRun
    /\ \E id \in RecipeIds, strict \in BOOLEAN, y \in Answers, j \in Answers :
         fetchRun = [pc |-> "start", id |-> id, strict |-> strict,
                     yaml |-> y, json |-> j,
                     out |-> FetchOut(FALSE, "", NoErr, <<>>)]

NextFetch == CallFetchRecipe

SpecFetch == InitFetch /\ [][NextFetch]_vars

(***************************************************************************)
(* Claims about the recipe fetcher.                                        *)
(***************************************************************************)
\* the call is over and the id was well formed
FetchDone ==
    /\ fetchRun.pc = "done"
    /\ buildGitHubBaseRecipeURL(fetchRun.id).err = NoErr

BaseURL == buildGitHubBaseRecipeURL(fetchRun.id).val

\* the candidate answered with a content that is not empty
Delivered(a) == a.ok /\ ~a.content.empty

\* the outcome of parsing the content as YAML, and as JSON
AsYaml(c) ==
    IF ~c.yamlOk \/ (fetchRun.strict /\ c.unknown) THEN "error" ELSE c.recipe

AsJson(c) ==
    IF ~c.jsonOk \/ (fetchRun.strict /\ c.unknown) THEN "error" ELSE c.recipe

FetchOutcome ==
    IF fetchRun.out.err # NoErr THEN "error" ELSE fetchRun.out.recipe

C24_WitnessYaml ==
    /\ FetchDone
    /\ fetchRun.yaml = Answer(YamlDoc)
    /\ fetchRun.json = Answer(JsonDoc)
    /\ Len(fetchRun.out.calls) = 1
    /\ fetchRun.out.err = NoErr /\ fetchRun.out.recipe = "R1"

(***************************************************************************)
(* The executable Recipe (core/executable): Materialize and Execute on one *)
(* Recipe object, with the file system both of them work on.               *)
(***************************************************************************)
\* the path strings of this development, split at the separators
PathTable ==
    ("" :> Path(FALSE, <<>>))
    @@ ("." :> Path(FALSE, <<".">>))
    @@ ("p1" :> Path(FALSE, <<"p1">>))
    @@ ("p2" :> Path(FALSE, <<"p2">>))
    @@ ("repo" :> Path(FALSE, <<"repo">>))
    @@ ("../out" :> Path(FALSE, <<"..", "out">>))
    @@ ("/w/r" :> Path(TRUE, <<"w", "r">>))
    @@ (".mcp.json" :> Path(FALSE, <<".mcp.json">>))
    @@ (".claude/settings.local.json"
          :> Path(FALSE, <<".claude", "settings.local.json">>))
    @@ (".claude/commands/refine.md"
          :> Path(FALSE, <<".claude", "commands", "refine.md">>))

\* the path a string names; a string a/b is the path of a followed by that
\* of b
ParsePath(str) ==
    IF str \in DOMAIN PathTable THEN PathTable[str]
    ELSE LET pr == CHOOSE pr \in (DOMAIN PathTable) \X (DOMAIN PathTable) :
                      str = pr[1] \o "/" \o pr[2]
         IN Path(PathTable[pr[1]].abs,
                 PathTable[pr[1]].segs \o PathTable[pr[2]].segs)

\* recipes.ExecutableRecipe: the entry point's IDE type and workspace, and
\* the recipe
ExecutableRecipe(ideType, workspace, recipe) ==
    [ideType |-> ideType, workspace |-> workspace, recipe |-> recipe]

\* getIDE (core/executable/ide.go)
getIDE(ideType) ==
    IF ideType = "" THEN Ret(PlainIDE, <<"ide type not provided">>, <<>>)
    ELSE IF ideType = "claude" THEN Ret(ClaudeIDE, NoErr, <<>>)
    ELSE Ret(PlainIDE, <<"unsupported IDE type", ideType>>, <<>>)

\* a *MaterializedResult with its workspace path
Materialized(entries, wsPath) ==
    [isNil |-> FALSE, entries |-> entries, WorkspacePath |-> wsPath]

NotMaterialized ==
    [isNil |-> TRUE, entries |-> <<>>, WorkspacePath |-> Path(FALSE, <<>>)]

\* os.ReadFile of the settings file and of the MCP file, as the adapter
\* names them: relative to the working directory
ReadDoc(f, str, empty) ==
    LET a == AbsOf(ParsePath(str)) IN
    IF Exists(f, a) /\ f[a].kind = "file" THEN f[a].content ELSE empty

RECURSIVE ApplyClones(_, _)
\* the directories git clone created for the calls
ApplyClones(f, calls) ==
    IF calls = <<>> THEN f
    ELSE ApplyClones(IF Head(calls).kind = "clone"
                     THEN MkdirAll(f, AbsOf(Clean(ParsePath(Head(calls).arg))))
                     ELSE f,
                     Tail(calls))

\* the context stage of providers.Recipe.Materialize, unless the call has
\* returned
ThenContext(run) == IF run.pc = "context" THEN StageContext(run) ELSE run

\* the IDE stage of providers.Recipe.Materialize, unless the call has returned
ThenIde(run) == IF run.pc = "ide" THEN StageIde(run) ELSE run

\* providers.Recipe.Materialize, from call to return
RecipeMaterialize(i, recipe, g, order, f, env) ==
    LET run0 == [pc |-> "start", recipe |-> recipe, i |-> i, g |-> g,
                 g0 |-> g, env |-> env, order |-> order,
                 existingSettings |->
                     ReadDoc(f, SettingsPath, EmptySettingsDoc),
                 existingMcp |->
                     ReadDoc(f, i.MCPServersJSONPath, EmptyMcpDoc),
                 calls |-> <<>>, entries |-> <<>>,
                 out |-> Out(NilResult, NoErr, <<>>, FALSE)]
    IN ThenIde(ThenContext(StagePrefetch(run0))).out

\* what a call on the Recipe returns and leaves behind: the cached result,
\* the file system, and whether the tool was launched
ExecStep(materialized, f, result, err, calls, panic, launched) ==
    [materialized |-> materialized, fs |-> f, result |-> result, err |-> err,
     calls |-> calls, panic |-> panic, launched |-> launched]

\* lines 61-83 of Recipe.Materialize, given what getIDE, the workspace
\* resolver and providers.Recipe.Materialize return and the file system the
\* clones leave
MaterializeWith(materialized, f, ide, ws, o, f2) ==
    IF ide.err # NoErr
    THEN ExecStep(materialized, f, NotMaterialized,
                  Wrap(<<"failed to get IDE">>, ide.err), <<>>, FALSE, FALSE)
    ELSE IF ws.err # NoErr
    THEN ExecStep(materialized, f, NotMaterialized,
                  Wrap(<<"failed to materialize workspace">>, ws.err),
                  <<>>, FALSE, FALSE)
    ELSE IF o.panic
    THEN ExecStep(materialized, f2, NotMaterialized, NoErr, o.calls, TRUE,
                  FALSE)
    ELSE IF o.err # NoErr
    THEN ExecStep(materialized, f2, NotMaterialized,
                  Wrap(<<"failed to materialize recipe">>, o.err),
                  o.calls, FALSE, FALSE)
    ELSE ExecStep(Materialized(o.result.entries, ws.path), f2,
                  Materialized(o.result.entries, ws.path), NoErr, o.calls,
                  FALSE, FALSE)

\* the file system after providers.Recipe.Materialize returned o
AfterClones(f, o) == ApplyClones(f, o.calls)

\* providers.Recipe.Materialize with the adapter getIDE returned
MaterializeFor(ide, r, g, order, f, env) ==
    RecipeMaterialize(ide.val, r.recipe, g, order, f, env)

\* lines 61-83 of Recipe.Materialize: materializing anew
MaterializeAnew(r, materialized, g, order, f, env) ==
    MaterializeWith(materialized, f, getIDE(r.ideType),
                    WorkspaceMaterialize(r.workspace, env.home, env.now,
                                         [ok |-> TRUE, bytes |-> <<>>]),
                    MaterializeFor(getIDE(r.ideType), r, g, order, f, env),
                    AfterClones(f, MaterializeFor(getIDE(r.ideType), r, g,
                                                  order, f, env)))

\* Recipe.Materialize materializing anew on every call
ExecutableMaterializeNoCache(r, materialized, g, order, f, env) ==
    MaterializeAnew(r, materialized, g, order, f, env)

\* Recipe.Materialize (lines 57-84)
ExecutableMaterialize(r, materialized, g, order, f, env) ==
    IF ~materialized.isNil
    THEN ExecStep(materialized, f, materialized, NoErr, <<>>, FALSE, FALSE)
    ELSE MaterializeAnew(r, materialized, g, order, f, env)

\* an entry of the result as PersistMaterializedResult reads it
ToEntry(e) ==
    IF e.kind = "dir" THEN DirEntry(ParsePath(e.path))
    ELSE FileEntry(ParsePath(e.path), e.content)

RECURSIVE PersistFrom(_, _, _, _)
\* the loop of PersistMaterializedResult from entry idx on
PersistFrom(root, entries, idx, f) ==
    IF idx > Len(entries) THEN [err |-> "none", fs |-> f]
    ELSE LET r == PersistOne(root, ToEntry(entries[idx]), f) IN
         IF r.err # "none" THEN r
         ELSE PersistFrom(root, entries, idx + 1, r.fs)

\* core.PersistMaterializedResult, from call to return
PersistMaterializedResult(root, result, f) ==
    IF root.segs = <<>> /\ ~root.abs THEN [err |-> "root_empty", fs |-> f]
    ELSE IF result.isNil THEN [err |-> "result_nil", fs |-> f]
    ELSE PersistFrom(Clean(root), result.entries, 1, f)

\* the root Recipe.Execute persists into (lines 91-94)
ExecRoot(materialized) ==
    IF materialized.WorkspacePath = Path(FALSE, <<>>)
    THEN Path(FALSE, <<".">>)
    ELSE materialized.WorkspacePath

\* Recipe.Execute after PersistMaterializedResult returned p (lines 96-122);
\* reading genCtx.OutputCMDOnly of a nil GenerationContext is a nil pointer
\* dereference
ExecuteWith(materialized, g, env, p) ==
    IF p.err # "none"
    THEN ExecStep(materialized, p.fs, NotMaterialized,
                  <<"failed to persist materialized result", p.err>>,
                  <<>>, FALSE, FALSE)
    ELSE IF g.isNil
    THEN ExecStep(materialized, p.fs, NotMaterialized, NoErr, <<>>, TRUE,
                  FALSE)
    ELSE IF env.launchFails
    THEN ExecStep(materialized, p.fs, NotMaterialized,
                  <<"failed to launch IDE">>, <<>>, FALSE, FALSE)
    ELSE ExecStep(materialized, p.fs, NotMaterialized, NoErr, <<>>,
                  FALSE, TRUE)

\* Recipe.Execute (lines 87-123)
ExecutableExecute(r, materialized, g, f, env) ==
    IF materialized.isNil
    THEN ExecStep(materialized, f, NotMaterialized,
                  <<"recipe must be materialized first">>, <<>>, FALSE, FALSE)
    ELSE ExecuteWith(materialized, g, env,
                     PersistMaterializedResult(ExecRoot(materialized),
                                               materialized, f))

\* two nodes of the file system are the same
SameNode(a, b) == a.kind = b.kind /\ (a.kind = "file" => a.content = b.content)

SameFs(f, g) ==
    /\ DOMAIN f = DOMAIN g
    /\ \A q \in DOMAIN f : SameNode(f[q], g[q])

ExecInnerRecipes ==
    { Recipe(NilPrefetch,
             Context(<<CtxEntry("p1", Text("T1"), <<"claude">>)>>),
             Ide(TRUE, <<Command("refine", Text("T2"))>>, NilPermissions,
                 Mcp(Obj1("b", HttpServer("u2"))))),
      Recipe(NilPrefetch,
             Context(<<CtxEntry("../out", GitRepo("g1"), <<>>)>>), NilIde),
      Recipe(Prefetch(<<PfCmd("f1")>>),
             Context(<<CtxEntry("p2", Cmd("c1"), <<>>)>>), NilIde),
      Recipe(NilPrefetch,
             Context(<<CtxEntry("repo", GitRepo("g1"), <<>>)>>), NilIde) }

ExecWorkspaces ==
    {NilWs, Ws(TRUE, Path(TRUE, <<"w", "r">>), TRUE, FALSE, 0)}

ExecRecipes ==
    {ExecutableRecipe(t, w, r) :
        t \in {"claude", "vim"}, w \in ExecWorkspaces, r \in ExecInnerRecipes}

\* the GenerationContexts a caller passes: nil, or one whose WorkspacePath
\* is the workspace of the recipe
ExecGenCtxs(r) ==
    {NilGenCtx}
    \cup {GenCtx(EmptyMap, EmptyMap, t,
                 IF r.workspace.isNil THEN "" ELSE "/w/r") :
             t \in {"claude", "codex"}}

ExecEnvs ==
    {[fail |-> fail, launchFails |-> l,
      home |-> [ok |-> TRUE, dir |-> Path(TRUE, <<"home", "u">>)],
      now |-> "20261101"] : fail \in {{}, {"c1"}}, l \in BOOLEAN}

\* an MCP file in the workspace /w/r and another one in the working
\* directory
ExecFsWithFiles ==
    WriteFile(
        WriteFile(MkdirAll(BaseFs, <<"w", "r">>), <<"w", "r", ".mcp.json">>,
                  McpDoc("object", TRUE,
                         Obj1("a", Obj2("type", "http", "url", "u0")),
                         EmptyMap)),
        <<"w", "c", ".mcp.json">>,
        McpDoc("object", TRUE,
               Obj1("z", Obj2("type", "http", "url", "u9")), EmptyMap))

ExecInitialFs == {BaseFs, ExecFsWithFiles}

\* the record of the call made last
LastCall(op, before, st, wrote) ==
    [op |-> op, materializedBefore |-> before, err |-> st.err,
     result |-> st.result, calls |-> st.calls, panic |-> st.panic,
     launched |-> st.launched, wrote |-> wrote]

NoCall ==
    [op |-> "none", materializedBefore |-> FALSE, err |-> NoErr,
     result |-> NotMaterialized, calls |-> <<>>, panic |-> FALSE,
     launched |-> FALSE, wrote |-> FALSE]

\* a Materialize call succeeded
Good(st) == ~st.panic /\ st.err = NoErr

\* the Recipe and the file system after a Materialize call that returned st;
\* ok tells that a Materialize call has succeeded, first what the first such
\* call returned, matFs and matOrder from which file system and map order
MaterializeReturns(order, st) ==
    /\ fs' = st.fs
    /\ execRun' =
         [execRun EXCEPT
            !.pc = IF st.panic THEN "crashed" ELSE "ready",
            !.n = execRun.n + 1,
            !.materialized = st.materialized,
            !.calls = execRun.calls \o st.calls,
            !.ok = execRun.ok \/ Good(st),
            !.first = IF ~execRun.ok /\ Good(st) THEN st.result
                      ELSE execRun.first,
            !.matFs = IF ~execRun.ok /\ Good(st) THEN fs ELSE execRun.matFs,
            !.matOrder = IF ~execRun.ok /\ Good(st) THEN order
                         ELSE execRun.matOrder,
            !.last = LastCall("materialize", execRun.ok, st,
                              ~SameFs(fs, st.fs))]

\* Recipe.Materialize
CallExecMaterialize ==
    /\ execRun.pc = "ready"
    /\ execRun.n < MaxCalls
    /\ \E g \in ExecGenCtxs(execRun.r),
          order \in RangeOrders(execRun.r.recipe.ide.mcp.servers) :
         MaterializeReturns(order,
                            ExecutableMaterialize(execRun.r,
                                                  execRun.materialized, g,
                                                  order, fs, execRun.env))
    /\ UNCHANGED <<persist, ctxRun, ideRun, recipeRun, resolveRun, pfRun,
                   wsRun, fetchRun>>

\* the Recipe and the file system after an Execute call that returned st
ExecuteReturns(st) ==
    /\ fs' = st.fs
    /\ execRun' =
         [execRun EXCEPT
            !.pc = IF st.panic THEN "crashed" ELSE "ready",
            !.n = execRun.n + 1,
            !.launches = execRun.launches + (IF st.launched THEN 1 ELSE 0),
            !.last = LastCall("execute", execRun.ok, st, ~SameFs(fs, st.fs))]

\* Recipe.Execute
CallExecExecute ==
    /\ execRun.pc = "ready"
    /\ execRun.n < MaxCalls
    /\ \E g \in ExecGenCtxs(execRun.r) :
         ExecuteReturns(ExecutableExecute(execRun.r, execRun.materialized, g,
                                          fs, execRun.env))
    /\ UNCHANGED <<persist, ctxRun, ideRun, recipeRun, resolveRun, pfRun,
                   wsRun, fetchRun>>

InitExec ==
    /\ persist = IdlePersist
    /\ ctxRun = IdleCtxRun
    /\ ideRun = IdleIdeRun
    /\ recipeRun = IdleRecipeRun
    /\ resolveRun = IdleResolveRun
    /\ pfRun = IdlePfRun
    /\ wsRun = IdleWsRun
    /\ fetchRun = IdleFetchRun
    /\ fs \in ExecInitialFs
    /\ \E r \in ExecRecipes, env \in ExecEnvs :
         execRun = [pc |-> "ready", r |-> r, env |-> env, n |-> 0,
                    materialized |-> NotMaterialized, calls |-> <<>>,
                    ok |-> FALSE, first |-> NotMaterialized, fs0 |-> fs,
                    matFs |-> fs, matOrder |-> <<>>, launches |-> 0,
                    last |-> NoCall]

NextExec == CallExecMaterialize \/ CallExecExecute

SpecExec == InitExec /\ [][NextExec]_vars

(***************************************************************************)
(* Claims about the executable Recipe.                                     *)
(***************************************************************************)
\* C27: unless an earlier Materialize call on the Recipe succeeded, Execute
\* returns 'recipe must be materialized first', writes no file and does not
\* launch the tool; after a successful Materialize every later Materialize
\* returns the same result without any external operation; a failed
\* Materialize leaves the Recipe unmaterialized.
C27_MaterializeFirst ==
    LET l == execRun.last IN
    /\ (l.op = "execute" /\ ~l.materializedBefore) =>
          /\ l.err = <<"recipe must be materialized first">>
          /\ ~l.wrote /\ ~l.launched /\ ~l.panic
          /\ execRun.launches = 0
    /\ (l.op = "execute" /\ l.materializedBefore) =>
          l.err # <<"recipe must be materialized first">>
    /\ (l.op = "materialize" /\ l.materializedBefore) =>
          /\ l.err = NoErr /\ ~l.panic
          /\ l.result = execRun.first
          /\ l.calls = <<>>
          /\ ~l.wrote
    /\ (l.op = "materialize" /\ ~l.materializedBefore
          /\ (l.err # NoErr \/ l.panic)) =>
          /\ execRun.materialized.isNil
          /\ ~execRun.ok
    /\ execRun.ok = ~execRun.materialized.isNil

\* a second Materialize after a first one that ran a command
C27_Witness ==
    /\ execRun.n = 2
    /\ execRun.last.op = "materialize"
    /\ execRun.last.materializedBefore
    /\ execRun.last.calls = <<>>
    /\ execRun.calls = <<Call("cmd", "f1"), Call("cmd", "c1")>>
    /\ execRun.last.result = execRun.first

\* Execute after a Materialize that failed
C27_WitnessFailed ==
    /\ execRun.n = 2
    /\ execRun.last.op = "execute"
    /\ ~execRun.last.materializedBefore
    /\ execRun.calls = <<Call("cmd", "f1"), Call("cmd", "c1")>>
    /\ execRun.last.err = <<"recipe must be materialized first">>

\* the workspace root of the run, as the operating system resolves it
ExecRootAbs ==
    IF execRun.r.workspace.isNil THEN Cwd
    ELSE AbsOf(Clean(execRun.r.workspace.path))

\* the paths created or rewritten since the Recipe was made
ExecTouched ==
    {q \in DOMAIN fs :
        ~Exists(execRun.fs0, q) \/ ~SameNode(fs[q], execRun.fs0[q])}

\* C25: across a materialize-and-persist run nothing is created or written
\* outside the workspace root (the missing ancestors of the root apart), and
\* no clone is made into a directory outside it.
C25_NothingOutsideWorkspace ==
    /\ \A q \in ExecTouched :
          \/ IsPrefixOf(ExecRootAbs, q)
          \/ IsPrefixOf(q, ExecRootAbs) /\ fs[q].kind = "dir"
    /\ \A j \in 1..Len(execRun.calls) :
          execRun.calls[j].kind = "clone" =>
             IsPrefixOf(ExecRootAbs,
                        AbsOf(Clean(ParsePath(execRun.calls[j].arg))))

\* the file of the workspace root that the adapter's path names
UnderRoot(str) == AbsOf(Join(Path(TRUE, ExecRootAbs), ParsePath(str)))

\* what the file named str held under the workspace root before the
\* materialization
DocUnderRoot(str, empty) ==
    IF Exists(execRun.matFs, UnderRoot(str))
       /\ execRun.matFs[UnderRoot(str)].kind = "file"
    THEN execRun.matFs[UnderRoot(str)].content
    ELSE empty

\* C26: the settings and MCP files Execute writes under the workspace root
\* hold what the merge of the files found there, under the workspace root,
\* gives.
C26_MergedFromWorkspaceFile ==
    (execRun.last.op = "execute" /\ execRun.last.launched
       /\ ~execRun.r.recipe.ide.isNil) =>
        LET exp == IdeMaterialize(ClaudeIDE, execRun.r.recipe.ide,
                                  execRun.matOrder,
                                  DocUnderRoot(SettingsPath, EmptySettingsDoc),
                                  DocUnderRoot(".mcp.json", EmptyMcpDoc),
                                  execRun.env, <<>>)
        IN
        /\ exp.err = NoErr
        /\ \A j \in 1..Len(exp.result.entries) :
              LET e == exp.result.entries[j] IN
              e.path \in {SettingsPath, ".mcp.json"} =>
                 /\ Exists(fs, UnderRoot(e.path))
                 /\ SameNode(fs[UnderRoot(e.path)], FileNode(e.content))

=============================================================================
